-------------------------- MODULE Calculations_proofs --------------------------
(***************************************************************************)
(* Calculations of the engine for every universe, portfolio, limit, run    *)
(* and label matrix: proofs of properties that the Calculations run checks *)
(* on four stocks and nine days.                                           *)
(***************************************************************************)
EXTENDS Calculations, DataTheorems

-----------------------------------------------------------------------------
(* The ranking of the stocks.                                              *)

\* A row of scores: an integer or NaN for every stock.
ScoreRow(scores) == \A s \in Finite(scores) : scores[s] \in Int

\* The ranking, as a set of pairs, and from the worst to the best.
Downwards(scores) == {p \in Stocks \X Stocks : Better(scores, p[1], p[2])}
Upwards(scores) == {p \in Stocks \X Stocks : Better(scores, p[2], p[1])}

(***************************************************************************)
(* The ranking orders the stocks with a score, in both directions; Top and *)
(* Bottom are the first of a set by it.                                    *)
(***************************************************************************)
LEMMA RankingOrders ==
  ASSUME NEW scores, ScoreRow(scores), NEW S \in SUBSET Finite(scores)
  PROVE  /\ Orders(Downwards(scores), S) /\ Orders(Upwards(scores), S)
         /\ \A n : Top(scores, S, n) = First(Downwards(scores), S, n)
         /\ \A n : Bottom(scores, S, n) = First(Upwards(scores), S, n)
<1> DEFINE D == Downwards(scores)
           U == Upwards(scores)
<1>1. S \subseteq Stocks /\ (\A s \in S : scores[s] \in Int /\ s \in Int)
  BY StocksAssumption DEF ScoreRow, Finite
<1>2. \A s, t \in S : (<<s, t>> \in D <=> Better(scores, s, t))
                      /\ (<<s, t>> \in U <=> Better(scores, t, s))
  BY <1>1 DEF Downwards, Upwards
<1> HIDE DEF D, U
<1>3. Orders(D, S) /\ Orders(U, S)
  BY <1>1, <1>2 DEF Orders, Better
<1>4. \A n : Top(scores, S, n) = First(D, S, n) /\ Bottom(scores, S, n) = First(U, S, n)
  BY <1>2 DEF Top, Bottom, First, Ahead
<1> QED BY <1>3, <1>4 DEF D, U

\* Sets of stocks are finite.
LEMMA StocksFinite ==
  ASSUME NEW S \in SUBSET Stocks
  PROVE  IsFiniteSet(S) /\ Cardinality(S) \in Nat
BY StocksAssumption, FS_Subset, FS_CardinalityType

(***************************************************************************)
(* The n best and the n worst of S are n of them, or all.                  *)
(***************************************************************************)
LEMMA RankedSize ==
  ASSUME NEW scores, ScoreRow(scores), NEW S \in SUBSET Finite(scores), NEW n \in Nat
  PROVE  /\ Top(scores, S, n) \subseteq S /\ Bottom(scores, S, n) \subseteq S
         /\ Cardinality(Top(scores, S, n)) = Smaller(n, Cardinality(S))
         /\ Cardinality(Bottom(scores, S, n)) = Smaller(n, Cardinality(S))
         /\ Cardinality(S) <= n => Top(scores, S, n) = S
<1>1. IsFiniteSet(S) /\ Cardinality(S) \in Nat
  BY StocksFinite DEF Finite
<1>2. Top(scores, S, n) \subseteq S /\ Bottom(scores, S, n) \subseteq S
  BY DEF Top, Bottom
<1>3. /\ Cardinality(Top(scores, S, n)) = Smaller(n, Cardinality(S))
      /\ Cardinality(Bottom(scores, S, n)) = Smaller(n, Cardinality(S))
  BY <1>1, RankingOrders, FirstSize DEF Smaller
<1>4. ASSUME Cardinality(S) <= n PROVE Top(scores, S, n) = S
  BY <1>1, <1>2, <1>3, <1>4, FS_Subset DEF Smaller
<1> QED BY <1>2, <1>3, <1>4

-----------------------------------------------------------------------------
(* The selection.                                                          *)

\* The stocks a rebalance could have room for.
Wanted(scores, current, locked, nDrop) ==
  Cardinality(ForcedSell(scores, current, locked)) + nDrop + Shortfall(current)

\* The slots that are free before any sale.
LEMMA ShortfallSize ==
  ASSUME NEW current \in SUBSET Stocks, Cardinality(current) <= TopK
  PROVE  Shortfall(current) = TopK - Cardinality(current) /\ Shortfall(current) \in Nat
BY StocksFinite, SelectionAssumption DEF Shortfall, Larger

(***************************************************************************)
(* What is bought today are the best of the eligible stocks not held, as   *)
(* many as there could be room for, and at least one.                      *)
(***************************************************************************)
LEMMA TodaySize ==
  ASSUME NEW scores, ScoreRow(scores), NEW current \in SUBSET Stocks,
         NEW locked \in SUBSET current, NEW nDrop \in Nat, Cardinality(current) <= TopK
  PROVE  /\ Wanted(scores, current, locked, nDrop) \in Nat
         /\ Today(scores, current, locked, nDrop) \subseteq Eligible(scores) \ current
         /\ Cardinality(Today(scores, current, locked, nDrop))
              = Smaller(Larger(1, Wanted(scores, current, locked, nDrop)),
                        Cardinality(Eligible(scores) \ current))
         /\ Cardinality(Eligible(scores) \ current)
              <= Larger(1, Wanted(scores, current, locked, nDrop)) =>
                Today(scores, current, locked, nDrop) = Eligible(scores) \ current
<1> DEFINE outside == Eligible(scores) \ current
           wanted == Wanted(scores, current, locked, nDrop)
           slots == Larger(1, wanted)
           today == Today(scores, current, locked, nDrop)
<1>1. outside \in SUBSET Finite(scores)
  BY DEF Eligible
<1>2. ForcedSell(scores, current, locked) \in SUBSET Stocks
  BY DEF ForcedSell
<1>3. wanted \in Nat
  BY <1>2, ShortfallSize, StocksFinite DEF Wanted
<1>4. today = Top(scores, outside, slots)
  BY DEF Today, Wanted
<1> HIDE DEF outside, wanted, today
<1>5. slots \in Nat
  BY <1>3 DEF Larger
<1> HIDE DEF slots
<1>6. /\ today \subseteq outside
      /\ Cardinality(today) = Smaller(slots, Cardinality(outside))
      /\ Cardinality(outside) <= slots => today = outside
  BY <1>1, <1>4, <1>5, RankedSize
<1> QED BY <1>3, <1>6 DEF outside, wanted, slots, today

(***************************************************************************)
(* The drop takes at most n_drop of the holdings it may take.              *)
(***************************************************************************)
LEMMA DroppedSize ==
  ASSUME NEW scores, ScoreRow(scores), NEW current \in SUBSET Stocks,
         NEW locked \in SUBSET current, NEW nDrop \in Nat, Cardinality(current) <= TopK
  PROVE  /\ Dropped(scores, current, locked, nDrop) \subseteq Sellable(scores, current, locked)
         /\ Cardinality(Dropped(scores, current, locked, nDrop)) <= nDrop
<1> DEFINE dropped == Dropped(scores, current, locked, nDrop)
           sellable == Sellable(scores, current, locked)
           ranked == sellable \cup Today(scores, current, locked, nDrop)
           drops == Smaller(nDrop, Cardinality(sellable))
           worst == Bottom(scores, ranked, drops)
<1>1. dropped \subseteq sellable /\ dropped \in SUBSET worst
  BY DEF Dropped
<1>2. ranked \in SUBSET Finite(scores) /\ sellable \in SUBSET Stocks
  BY TodaySize DEF Sellable, Eligible, Finite
<1>3. ranked \in SUBSET Stocks
  BY <1>2 DEF Finite
<1> HIDE DEF ranked, sellable, dropped
<1>4. drops \in Nat /\ drops <= nDrop /\ Cardinality(ranked) \in Nat
  BY <1>2, <1>3, StocksFinite DEF Smaller
<1> HIDE DEF drops
<1>5. worst \subseteq ranked /\ Cardinality(worst) = Smaller(drops, Cardinality(ranked))
  BY <1>2, <1>4, RankedSize
<1> HIDE DEF worst
<1>6. IsFiniteSet(worst) /\ Cardinality(worst) \in Nat
  BY <1>3, <1>5, StocksFinite
<1>7. Cardinality(dropped) <= nDrop
  BY <1>1, <1>4, <1>5, <1>6, FS_Subset, FS_CardinalityType DEF Smaller
<1> QED BY <1>1, <1>7 DEF dropped, sellable

(***************************************************************************)
(* The lists of a day with eligible stocks: what is forced out and what is *)
(* dropped are two, and what is bought fills what they and the shortfall   *)
(* leave free.                                                             *)
(***************************************************************************)
LEMMA ListsOfADay ==
  ASSUME NEW scores, ScoreRow(scores), NEW current \in SUBSET Stocks,
         NEW locked \in SUBSET current, NEW nDrop \in Nat, Cardinality(current) <= TopK,
         Eligible(scores) # {}
  PROVE  /\ SellList(scores, current, locked, nDrop)
              = ForcedSell(scores, current, locked) \cup Dropped(scores, current, locked, nDrop)
         /\ Cardinality(SellList(scores, current, locked, nDrop))
              = Cardinality(ForcedSell(scores, current, locked))
                  + Cardinality(Dropped(scores, current, locked, nDrop))
         /\ BuyList(scores, current, locked, nDrop)
              = Top(scores, Today(scores, current, locked, nDrop),
                    Cardinality(SellList(scores, current, locked, nDrop)) + Shortfall(current))
<1> DEFINE forced == ForcedSell(scores, current, locked)
           dropped == Dropped(scores, current, locked, nDrop)
           sells == SellList(scores, current, locked, nDrop)
<1>1. sells = forced \cup dropped
  BY DEF SellList
<1>2. BuyList(scores, current, locked, nDrop)
        = Top(scores, Today(scores, current, locked, nDrop),
              Cardinality(sells) + Shortfall(current))
  BY DEF BuyList
<1>3. forced \in SUBSET Stocks /\ dropped \in SUBSET Stocks /\ forced \cap dropped = {}
  BY DEF ForcedSell, Dropped, Sellable
<1> HIDE DEF forced, dropped, sells
<1>4. /\ IsFiniteSet(forced) /\ Cardinality(forced) \in Nat
      /\ IsFiniteSet(dropped) /\ Cardinality(dropped) \in Nat
  BY <1>3, StocksFinite
<1>5. Cardinality(forced \cap dropped) = 0
  BY <1>3, FS_EmptySet
<1>6. Cardinality(forced \cup dropped)
        = Cardinality(forced) + Cardinality(dropped) - Cardinality(forced \cap dropped)
  BY <1>4, FS_Union
<1>7. Cardinality(sells) = Cardinality(forced) + Cardinality(dropped)
  BY <1>1, <1>4, <1>5, <1>6
<1> QED BY <1>1, <1>2, <1>7 DEF forced, dropped, sells

(***************************************************************************)
(* The trades of any rebalance can be executed within topk, and leave no   *)
(* slot free that a candidate could fill.                                  *)
(***************************************************************************)
THEOREM SelectionExecutable ==
  ASSUME NEW scores, ScoreRow(scores), NEW current \in SUBSET Stocks,
         NEW locked \in SUBSET current, NEW nDrop \in Nat, Cardinality(current) <= TopK
  PROVE  LET sells == SellList(scores, current, locked, nDrop)
             buys  == BuyList(scores, current, locked, nDrop)
         IN  /\ sells \subseteq current \ locked
             /\ buys \cap current = {}
             /\ Cardinality((current \ sells) \cup buys) <= TopK
             /\ \/ Cardinality((current \ sells) \cup buys) = TopK
                \/ Eligible(scores) \ current \subseteq buys
<1> DEFINE sells   == SellList(scores, current, locked, nDrop)
           buys    == BuyList(scores, current, locked, nDrop)
           forced  == ForcedSell(scores, current, locked)
           dropped == Dropped(scores, current, locked, nDrop)
           today   == Today(scores, current, locked, nDrop)
           outside == Eligible(scores) \ current
           short   == Shortfall(current)
           wanted  == Wanted(scores, current, locked, nDrop)
           after   == (current \ sells) \cup buys
<1>1. /\ wanted = Cardinality(forced) + nDrop + short
      /\ short = TopK - Cardinality(current) /\ short \in Nat
      /\ sells \in SUBSET Stocks /\ buys \in SUBSET Stocks /\ forced \in SUBSET Stocks
      /\ dropped \in SUBSET Stocks /\ today \in SUBSET Stocks /\ outside \in SUBSET Stocks
      /\ Eligible(scores) \subseteq Finite(scores)
      /\ Cardinality(dropped) <= nDrop
      /\ today \subseteq outside
      /\ Cardinality(today) = Smaller(Larger(1, wanted), Cardinality(outside))
      /\ Cardinality(outside) <= Larger(1, wanted) => today = outside
      /\ sells \subseteq current \ locked
      /\ Eligible(scores) = {} => buys = {}
      /\ Eligible(scores) # {} =>
           /\ Cardinality(sells) = Cardinality(forced) + Cardinality(dropped)
           /\ buys = Top(scores, today, Cardinality(sells) + short)
  <2>1. /\ forced \in SUBSET Stocks /\ forced \subseteq current \ locked
        /\ dropped \in SUBSET Stocks /\ dropped \subseteq current \ locked
        /\ outside \in SUBSET Stocks /\ Eligible(scores) \subseteq Finite(scores)
    BY DEF ForcedSell, Dropped, Sellable, Eligible, Finite
  <2>2. short = TopK - Cardinality(current) /\ short \in Nat
    BY ShortfallSize
  <2>3. Cardinality(dropped) <= nDrop
    BY DroppedSize
  <2>4. /\ today \subseteq outside
        /\ Cardinality(today) = Smaller(Larger(1, wanted), Cardinality(outside))
        /\ Cardinality(outside) <= Larger(1, wanted) => today = outside
    BY TodaySize
  <2>5. Eligible(scores) # {} =>
           /\ sells = forced \cup dropped
           /\ Cardinality(sells) = Cardinality(forced) + Cardinality(dropped)
           /\ buys = Top(scores, today, Cardinality(sells) + short)
    BY ListsOfADay
  <2>6. Eligible(scores) = {} => buys = {} /\ sells \subseteq current \ locked
    BY DEF BuyList, SellList
  <2>7. wanted = Cardinality(forced) + nDrop + short
    BY DEF Wanted
  <2> HIDE DEF sells, buys, forced, dropped, today, outside, short, wanted
  <2>8. today \in SUBSET Stocks /\ sells \subseteq current \ locked
    BY <2>1, <2>4, <2>5, <2>6
  <2>9. buys \in SUBSET Stocks
    BY <2>5, <2>6, <2>8 DEF Top
  <2> QED BY <2>1, <2>2, <2>3, <2>4, <2>5, <2>6, <2>8, <2>9, <2>7
<1> HIDE DEF sells, buys, forced, dropped, today, outside, short, wanted
<1>2. /\ Cardinality(sells) \in Nat /\ IsFiniteSet(sells)
      /\ Cardinality(buys) \in Nat /\ IsFiniteSet(buys)
      /\ Cardinality(forced) \in Nat /\ Cardinality(dropped) \in Nat
      /\ Cardinality(today) \in Nat /\ Cardinality(outside) \in Nat
      /\ Cardinality(current) \in Nat /\ IsFiniteSet(current)
  BY <1>1, StocksFinite
<1>3. buys \cap current = {}
  BY <1>1 DEF outside, Top
<1>4. Cardinality(after) = Cardinality(current) - Cardinality(sells) + Cardinality(buys)
  <2>1. /\ IsFiniteSet(current \ sells)
        /\ Cardinality(current \ sells) = Cardinality(current) - Cardinality(current \cap sells)
    BY <1>2, FS_Difference
  <2>2. current \cap sells = sells
    BY <1>1
  <2>3. Cardinality((current \ sells) \cap buys) = 0
    BY <1>3, FS_EmptySet
  <2>4. Cardinality(after) = Cardinality(current \ sells) + Cardinality(buys)
                               - Cardinality((current \ sells) \cap buys)
    BY <1>2, <2>1, FS_Union
  <2>5. Cardinality(current \ sells) = Cardinality(current) - Cardinality(sells)
    BY <2>1, <2>2
  <2> HIDE DEF after
  <2> QED BY <1>2, <2>3, <2>4, <2>5
<1>5. CASE Eligible(scores) = {}
  <2>1. buys = {} /\ outside \subseteq buys
    BY <1>1, <1>5 DEF outside
  <2>2. Cardinality(after) <= TopK
    BY <1>1, <1>2, <1>4, <2>1, FS_EmptySet, SelectionAssumption
  <2> QED BY <1>1, <1>3, <2>1, <2>2 DEF sells, buys, outside
<1>6. CASE Eligible(scores) # {}
  <2> DEFINE room == Cardinality(sells) + short
  <2>1. room \in Nat /\ room <= Larger(1, wanted)
    BY <1>1, <1>2, <1>6 DEF Larger
  <2>2. /\ buys = Top(scores, today, room) /\ today \in SUBSET Finite(scores)
    BY <1>1, <1>6 DEF outside
  <2> HIDE DEF room
  <2>3. /\ Cardinality(buys) = Smaller(room, Cardinality(today))
        /\ Cardinality(today) <= room => buys = today
    BY <2>1, <2>2, RankedSize
  <2>4. Cardinality(after) <= TopK
    <3> HIDE DEF after
    <3> QED BY <1>1, <1>2, <1>4, <2>3, SelectionAssumption DEF Smaller, room
  <2>5. CASE room <= Cardinality(today)
    <3>1. Cardinality(after) = TopK
      <4> HIDE DEF after
      <4> QED
        BY <1>1, <1>2, <1>4, <2>3, <2>5, SelectionAssumption DEF room, Smaller
    <3> QED BY <1>1, <1>3, <2>4, <3>1 DEF sells, buys, outside
  <2>6. CASE ~(room <= Cardinality(today))
    <3>1. Cardinality(outside) <= Larger(1, wanted)
      BY <1>1, <1>2, <2>1, <2>6 DEF Larger, Smaller
    <3>2. outside \subseteq buys
      BY <1>1, <1>2, <2>1, <2>3, <2>6, <3>1
    <3> QED BY <1>1, <1>3, <2>4, <3>2 DEF sells, buys, outside
  <2> QED BY <2>5, <2>6
<1> QED BY <1>5, <1>6

(***************************************************************************)
(* No rotation trades down while there are candidates for all of it: if a  *)
(* dropped holding were better than a purchase, so would be the best of    *)
(* the dropped ones, and behind it were too many of the ranked stocks, the *)
(* other dropped ones and the candidates from that purchase on. Nor does   *)
(* one sell from the buffer.                                               *)
(***************************************************************************)
THEOREM NeverTradesDown ==
  ASSUME NEW scores, ScoreRow(scores), NEW current \in SUBSET Stocks,
         NEW locked \in SUBSET current, NEW nDrop \in Nat, Cardinality(current) <= TopK
  PROVE  LET sells == SellList(scores, current, locked, nDrop)
             buys  == BuyList(scores, current, locked, nDrop)
         IN  /\ Cardinality(Eligible(scores) \ current)
                  >= Cardinality(ForcedSell(scores, current, locked)) + nDrop
                       + Shortfall(current) =>
                  \A s \in sells \cap Eligible(scores), b \in buys : Better(scores, b, s)
             /\ KeepTopN # None => sells \cap Top(scores, Eligible(scores), KeepTopN) = {}
<1> DEFINE sells    == SellList(scores, current, locked, nDrop)
           buys     == BuyList(scores, current, locked, nDrop)
           forced   == ForcedSell(scores, current, locked)
           dropped  == Dropped(scores, current, locked, nDrop)
           sellable == Sellable(scores, current, locked)
           today    == Today(scores, current, locked, nDrop)
           outside  == Eligible(scores) \ current
           short    == Shortfall(current)
           wanted   == Wanted(scores, current, locked, nDrop)
           ranked   == sellable \cup today
           drops    == Smaller(nDrop, Cardinality(sellable))
           room     == Cardinality(sells) + short
<1>1. /\ wanted = Cardinality(forced) + nDrop + short
      /\ short \in Nat
      /\ forced \in SUBSET Stocks /\ dropped \in SUBSET Stocks /\ today \in SUBSET Stocks
      /\ outside \in SUBSET Stocks /\ sellable \in SUBSET Stocks
      /\ Eligible(scores) \subseteq Finite(scores)
      /\ forced \cap Eligible(scores) = {}
      /\ dropped \subseteq sellable /\ sellable \subseteq current \cap Eligible(scores)
      /\ KeepTopN # None => sellable \cap Top(scores, Eligible(scores), KeepTopN) = {}
      /\ Cardinality(dropped) <= nDrop
      /\ today \subseteq outside
      /\ Cardinality(today) = Smaller(Larger(1, wanted), Cardinality(outside))
      /\ Eligible(scores) # {} =>
           /\ sells = forced \cup dropped
           /\ Cardinality(sells) = Cardinality(forced) + Cardinality(dropped)
           /\ buys = Top(scores, today, room)
  <2>1. /\ forced \in SUBSET Stocks /\ forced \cap Eligible(scores) = {}
        /\ dropped \in SUBSET Stocks /\ outside \in SUBSET Stocks
        /\ sellable \in SUBSET Stocks /\ sellable \subseteq current \cap Eligible(scores)
        /\ Eligible(scores) \subseteq Finite(scores)
        /\ KeepTopN # None => sellable \cap Top(scores, Eligible(scores), KeepTopN) = {}
    BY DEF ForcedSell, Dropped, Sellable, BufferProtected, Eligible, Finite
  <2>2. short \in Nat
    BY ShortfallSize
  <2>3. dropped \subseteq sellable /\ Cardinality(dropped) <= nDrop
    BY DroppedSize
  <2>4. /\ today \subseteq outside
        /\ Cardinality(today) = Smaller(Larger(1, wanted), Cardinality(outside))
    BY TodaySize
  <2>5. Eligible(scores) # {} =>
           /\ sells = forced \cup dropped
           /\ Cardinality(sells) = Cardinality(forced) + Cardinality(dropped)
           /\ buys = Top(scores, today, room)
    BY ListsOfADay
  <2>6. wanted = Cardinality(forced) + nDrop + short
    BY DEF Wanted
  <2> HIDE DEF sells, buys, forced, dropped, sellable, today, outside, short, wanted, room
  <2>7. today \in SUBSET Stocks
    BY <2>1, <2>4
  <2> QED BY <2>1, <2>2, <2>3, <2>4, <2>5, <2>7, <2>6
<1>2. dropped \subseteq Bottom(scores, ranked, drops)
  BY DEF Dropped
<1>3. outside = Eligible(scores) \ current
  OBVIOUS
<1> HIDE DEF sells, buys, forced, dropped, sellable, today, outside, short, wanted
<1>4. sells \cap Eligible(scores) \subseteq dropped
  BY <1>1
<1>5. KeepTopN # None => sells \cap Top(scores, Eligible(scores), KeepTopN) = {}
  BY <1>1, <1>4 DEF Top
<1>6. ASSUME Cardinality(outside) >= wanted,
             NEW s \in sells \cap Eligible(scores), NEW b \in buys, ~Better(scores, b, s)
      PROVE  FALSE
  <2>1. /\ Eligible(scores) # {} /\ s \in dropped /\ b \in today
        /\ s \in Finite(scores) /\ b \in Finite(scores) /\ s # b
    BY <1>1, <1>3, <1>4, <1>6 DEF Top
  <2>2. Better(scores, s, b)
    BY <1>6, <2>1, StocksAssumption DEF ScoreRow, Better, Finite
  <2>3. PICK x \in dropped : \A y \in dropped \ {x} : Better(scores, x, y)
    <3>1. dropped \in SUBSET Finite(scores) /\ IsFiniteSet(dropped)
      BY <1>1, StocksFinite
    <3>2. PICK x \in dropped : \A y \in dropped \ {x} : <<x, y>> \in Downwards(scores)
      BY <2>1, <3>1, RankingOrders, FirstMember
    <3> QED BY <3>2 DEF Downwards
  <2>4. Better(scores, x, b)
    BY <1>1, <2>1, <2>2, <2>3, StocksAssumption DEF ScoreRow, Better, Finite
  <2> DEFINE rest == dropped \ {x}
             behind == {t \in today : ~Better(scores, t, b)}
             ahead == {t \in today : Better(scores, t, b)}
             worse == {t \in ranked : Better(scores, x, t)}
  <2>5. /\ IsFiniteSet(today) /\ Cardinality(today) \in Nat
        /\ IsFiniteSet(dropped) /\ Cardinality(dropped) \in Nat
        /\ Cardinality(forced) \in Nat /\ Cardinality(outside) \in Nat
        /\ Cardinality(sellable) \in Nat
    BY <1>1, StocksFinite
  <2>6. Cardinality(ahead) < room
    BY <1>1, <1>6, <2>1 DEF Top
  <2>7. /\ IsFiniteSet(behind) /\ Cardinality(behind) \in Nat
        /\ Cardinality(behind) >= nDrop - Cardinality(dropped) + 1
    <3>1. Cardinality(today) >= wanted
      BY <1>1, <1>6, <2>5 DEF Smaller, Larger
    <3>2. IsFiniteSet(ahead) /\ Cardinality(ahead) \in Nat
      BY <2>5, FS_Subset, FS_CardinalityType
    <3>3. behind = today \ ahead /\ today \cap ahead = ahead
      OBVIOUS
    <3> HIDE DEF ahead, behind
    <3>4. /\ IsFiniteSet(today \ ahead)
          /\ Cardinality(today \ ahead) = Cardinality(today) - Cardinality(today \cap ahead)
      BY <2>5, FS_Difference
    <3>5. /\ IsFiniteSet(behind) /\ Cardinality(behind) = Cardinality(today) - Cardinality(ahead)
          /\ Cardinality(behind) \in Nat
      BY <3>3, <3>4, FS_CardinalityType
    <3> QED BY <1>1, <2>1, <2>5, <2>6, <3>1, <3>2, <3>5
  <2>8. IsFiniteSet(rest) /\ Cardinality(rest) = Cardinality(dropped) - 1 /\ Cardinality(rest) \in Nat
    BY <2>3, <2>5, FS_RemoveElement, FS_CardinalityType
  <2>9. rest \cap behind = {}
    BY <1>1, <1>3
  <2>10. rest \cup behind \subseteq worse
    <3>1. ASSUME NEW t \in behind PROVE Better(scores, x, t)
      <4>1. t \in Finite(scores) /\ x \in Finite(scores)
        BY <1>1, <1>3, <2>3
      <4> QED BY <2>1, <2>4, <4>1, StocksAssumption DEF ScoreRow, Better, Finite
    <3> QED BY <1>1, <2>3, <3>1
  <2>11. Cardinality(worse) < drops
    BY <1>2, <2>3 DEF Bottom
  <2>12. IsFiniteSet(worse)
    BY <1>1, StocksFinite
  <2> HIDE DEF rest, behind, worse
  <2>13. Cardinality(rest \cup behind) >= nDrop
    <3>1. Cardinality(rest \cap behind) = 0
      BY <2>9, FS_EmptySet
    <3>2. Cardinality(rest \cup behind)
            = Cardinality(rest) + Cardinality(behind) - Cardinality(rest \cap behind)
      BY <2>7, <2>8, FS_Union
    <3> QED BY <2>5, <2>7, <2>8, <3>1, <3>2
  <2> QED
    BY <2>5, <2>10, <2>11, <2>12, <2>13, FS_Subset, FS_CardinalityType DEF
       Smaller
<1> QED BY <1>5, <1>6 DEF sells, buys, forced, outside, short, wanted, Wanted

-----------------------------------------------------------------------------
(* The history of residual returns.                                        *)

\* A period is over before a day of a later one.
LEMMA PeriodsFollow ==
  ASSUME NEW a \in Nat, NEW b \in Nat, NEW f \in Nat, a < b
  PROVE  (a + 1) * f <= b * f
OBVIOUS

\* No day has more steps left than a period has, or than the run.
LEMMA StepsInPeriod ==
  ASSUME freq \in Nat \ {0}, nDates \in Nat, NEW p \in Nat, p < nDates
  PROVE  /\ History!RemainingSteps(p) \in 0..freq
         /\ p + History!RemainingSteps(p) <= nDates
<1> DEFINE q == p \div freq
           r == p % freq
           next == (q + 1) * freq
<1>1. q \in Nat /\ r \in 0..(freq - 1) /\ p = (freq * q) + r
  BY Division
<1> HIDE DEF q, r
<1>2. next = freq * q + freq /\ next \in Nat
  BY <1>1
<1> HIDE DEF next
<1>3. next - p = freq - r
  BY <1>1, <1>2
<1> QED BY <1>1, <1>2, <1>3 DEF History!RemainingSteps

(***************************************************************************)
(* An earlier day with as many steps left is of an earlier period, and the *)
(* return from it to its rebalance was over by now.                        *)
(***************************************************************************)
LEMMA EarlierPeriodIsOver ==
  ASSUME freq \in Nat \ {0}, nDates \in Nat, NEW d \in Nat, NEW p \in Nat,
         d < p, p < nDates,
         History!RemainingSteps(d) = History!RemainingSteps(p),
         History!RemainingSteps(p) > 0
  PROVE  d + History!RemainingSteps(d) <= p
<1> DEFINE q == p \div freq
           c == d \div freq
           End(k) == IF (k + 1) * freq < nDates THEN (k + 1) * freq ELSE nDates
<1>1. /\ q \in Nat /\ c \in Nat
      /\ p = (freq * q) + (p % freq) /\ p % freq \in 0..(freq - 1)
      /\ d = (freq * c) + (d % freq) /\ d % freq \in 0..(freq - 1)
  BY Division
<1>2. /\ History!RemainingSteps(p) = End(q) - p
      /\ History!RemainingSteps(d) = End(c) - d
  BY DEF History!RemainingSteps
<1>3. End(q) \in Nat /\ End(c) \in Nat /\ End(q) <= nDates
  BY <1>1
<1>4. End(c) < nDates /\ c # q
  BY <1>2, <1>3
<1>5. End(c) = (c + 1) * freq
  BY <1>4
<1>6. c < q
  <2>1. ASSUME q < c PROVE FALSE
    BY <1>1, <2>1, PeriodsFollow
  <2> HIDE DEF q, c
  <2> QED BY <1>1, <1>4, <2>1
<1> HIDE DEF q, c, End
<1>7. (c + 1) * freq <= q * freq
  BY <1>1, <1>6, PeriodsFollow
<1>8. q * freq = freq * q /\ freq * q \in Nat /\ freq * q <= p
  BY <1>1
<1> QED BY <1>2, <1>3, <1>5, <1>7, <1>8

-----------------------------------------------------------------------------
(* The matrices of a bundle.                                               *)

\* The average rank of a score is that among the scores of its day.
LEMMA RankWithinDay ==
  ASSUME NEW m, NEW pairs, NEW d, NEW i
  PROVE  Bundle!RankOfDay(OnDay(m, d), {p \in pairs : p[1] = d}, d, i)
           = Bundle!RankOfDay(m, pairs, d, i)
BY DEF OnDay, Bundle!RankOfDay

\* The fused score of a cell, of the two values that are fused.
FusedCell(pairs, d, i, a, b, cfg) ==
  CASE <<d, i>> \notin pairs -> NaN
    [] cfg.mode = "multiply" -> a * b
    [] cfg.mode = "blend" -> (a + b) \div 2
    [] cfg.mode = "filter" -> IF b < cfg.threshold THEN cfg.filterValue ELSE a

\* The axes and the cells of a fused matrix.
LEMMA FusedMatrix ==
  ASSUME NEW x, NEW y, NEW cfg, Bundle!Pairs(x, y) # {}
  PROVE  /\ Bundle!Fused(x, y, cfg).days = {p[1] : p \in Bundle!Pairs(x, y)}
         /\ Bundle!Fused(x, y, cfg).names = {p[2] : p \in Bundle!Pairs(x, y)}
         /\ \A d \in {p[1] : p \in Bundle!Pairs(x, y)}, i \in {p[2] : p \in Bundle!Pairs(x, y)} :
              Bundle!Fused(x, y, cfg).at[d][i]
                = FusedCell(Bundle!Pairs(x, y), d, i,
                            Bundle!FusionValue(x, Bundle!Pairs(x, y), cfg.primaryTransform, d, i),
                            Bundle!FusionValue(y, Bundle!Pairs(x, y), cfg.secondaryTransform, d, i),
                            cfg)
BY DEF Bundle!Fused, Bundle!Matrix, FusedCell

(***************************************************************************)
(* A fused score is made of the scores of its day: fusing the two days     *)
(* alone gives it too, whatever the bundles hold of other days             *)
(* (fuse_predictions).                                                     *)
(***************************************************************************)
THEOREM FusionOfADay ==
  ASSUME NEW x, NEW y, NEW cfg, NEW d \in Bundle!Fused(x, y, cfg).days,
         NEW i \in Bundle!Fused(OnDay(x, d), OnDay(y, d), cfg).names
  PROVE  Bundle!Fused(x, y, cfg).at[d][i]
           = Bundle!Fused(OnDay(x, d), OnDay(y, d), cfg).at[d][i]
<1> DEFINE pairs == Bundle!Pairs(x, y)
           alone == Bundle!Pairs(OnDay(x, d), OnDay(y, d))
<1>1. pairs # {}
  BY DEF Bundle!Fused, Bundle!Error
<1>2. d \in {p[1] : p \in pairs}
  BY <1>1, FusedMatrix
<1>3. alone = {p \in pairs : p[1] = d}
  BY <1>2 DEF Bundle!Pairs, OnDay
<1>4. alone # {}
  BY <1>2, <1>3
<1>5. i \in {p[2] : p \in alone} /\ i \in {p[2] : p \in pairs} /\ d \in {p[1] : p \in alone}
  BY <1>3, <1>4, FusedMatrix
<1>6. \A t : /\ Bundle!FusionValue(OnDay(x, d), alone, t, d, i) = Bundle!FusionValue(x, pairs, t, d, i)
             /\ Bundle!FusionValue(OnDay(y, d), alone, t, d, i) = Bundle!FusionValue(y, pairs, t, d, i)
  <2>1. OnDay(x, d).at[d] = x.at[d] /\ OnDay(y, d).at[d] = y.at[d]
    BY DEF OnDay
  <2> HIDE DEF pairs, alone
  <2>2. /\ Bundle!RankOfDay(OnDay(x, d), alone, d, i) = Bundle!RankOfDay(x, pairs, d, i)
        /\ Bundle!RankOfDay(OnDay(y, d), alone, d, i) = Bundle!RankOfDay(y, pairs, d, i)
    BY <1>3, RankWithinDay
  <2> QED BY <2>1, <2>2 DEF Bundle!FusionValue
<1>7. <<d, i>> \in alone <=> <<d, i>> \in pairs
  BY <1>3
<1> DEFINE a == Bundle!FusionValue(x, pairs, cfg.primaryTransform, d, i)
           b == Bundle!FusionValue(y, pairs, cfg.secondaryTransform, d, i)
<1>8. Bundle!Fused(OnDay(x, d), OnDay(y, d), cfg).at[d][i] = FusedCell(alone, d, i, a, b, cfg)
  BY <1>4, <1>5, <1>6, FusedMatrix
<1>9. FusedCell(alone, d, i, a, b, cfg) = FusedCell(pairs, d, i, a, b, cfg)
  BY <1>7 DEF FusedCell
<1> QED BY <1>1, <1>2, <1>5, <1>8, <1>9, FusedMatrix

(***************************************************************************)
(* Every day the strategy has, the baselines at fixed risk have too: their *)
(* axes are wider and nothing of the labels is masked (FixedBaselines).    *)
(***************************************************************************)
THEOREM BaselinesKeepTheDays ==
  ASSUME NEW bundle, NEW secondary, NEW fusion,
         NEW b \in Bundle!FixedBaselines(bundle).baselines
  PROVE  Bundle!CoreDays(Bundle!Prepared(bundle, secondary, fusion).scores,
                         Bundle!Prepared(bundle, secondary, fusion).labels)
           \subseteq Bundle!CoreDays(b, Bundle!FixedBaselines(bundle).labels)
<1> DEFINE scores == IF fusion = None THEN bundle.predictions
                     ELSE Bundle!Fused(bundle.predictions, secondary, fusion)
           axes == Bundle!CommonAxes({scores, bundle.labels} \cup bundle.baselines)
           mask == IF fusion = None THEN Bundle!Whole(axes)
                   ELSE Bundle!Pairs(bundle.predictions, secondary) \cap Bundle!Whole(axes)
           wide == Bundle!CommonAxes({bundle.labels} \cup bundle.baselines)
           run == Bundle!Prepared(bundle, secondary, fusion)
           fixed == Bundle!FixedBaselines(bundle)
<1>1. /\ run.scores = Bundle!Project(scores, axes, mask)
      /\ run.labels = Bundle!Project(bundle.labels, axes, mask)
  BY DEF Bundle!Prepared
<1>2. /\ fixed.labels = Bundle!Project(bundle.labels, wide, Bundle!Whole(wide))
      /\ \E c \in bundle.baselines : b = Bundle!Project(c, wide, Bundle!Whole(wide))
  BY DEF Bundle!FixedBaselines
<1>3. /\ axes.days \subseteq wide.days /\ axes.names \subseteq wide.names
  BY DEF Bundle!CommonAxes
<1> HIDE DEF scores, axes, mask, wide
<1>4. ASSUME NEW m, NEW ax, NEW mk
      PROVE  /\ Bundle!Project(m, ax, mk).days = ax.days /\ Bundle!Project(m, ax, mk).names = ax.names
             /\ \A d \in ax.days, i \in ax.names :
                  Bundle!Project(m, ax, mk).at[d][i]
                    = IF <<d, i>> \in mk /\ d \in m.days /\ i \in m.names THEN m.at[d][i] ELSE NaN
  BY DEF Bundle!Project, Bundle!Matrix
<1>5. ASSUME NEW d \in Bundle!CoreDays(run.scores, run.labels)
      PROVE  d \in Bundle!CoreDays(b, fixed.labels)
  <2>1. d \in axes.days
    BY <1>1, <1>4, <1>5 DEF Bundle!CoreDays
  <2>2. PICK i \in axes.names : run.labels.at[d][i] # NaN
    BY <1>1, <1>4, <1>5 DEF Bundle!CoreDays
  <2>3. d \in bundle.labels.days /\ i \in bundle.labels.names /\ bundle.labels.at[d][i] # NaN
    <3>1. run.labels.at[d][i]
            = IF <<d, i>> \in mask /\ d \in bundle.labels.days /\ i \in bundle.labels.names
              THEN bundle.labels.at[d][i] ELSE NaN
      BY <1>1, <1>4, <2>1, <2>2
    <3> QED BY <2>2, <3>1, Zenon
  <2>4. d \in wide.days /\ i \in wide.names /\ <<d, i>> \in Bundle!Whole(wide)
    BY <1>3, <2>1, <2>2 DEF Bundle!Whole
  <2>5. d \in b.days
    BY <1>2, <1>4, <2>4
  <2> QED BY <1>2, <1>4, <2>3, <2>4, <2>5 DEF Bundle!CoreDays
<1> QED BY <1>5

-----------------------------------------------------------------------------
(* Where the evidence of a profile comes from.                             *)

\* A directory is about one range of days, if its manifest says so.
OneRange(dir) ==
  dir.manifest # None =>
    dir.summary = dir.manifest.days /\ dir.comparison \in {None, dir.manifest.days}

(***************************************************************************)
(* A run that is not killed leaves a directory about its own days, unless  *)
(* it has no segments and a run before it had.                             *)
(***************************************************************************)
LEMMA WholeRunsLeaveOneRange ==
  ASSUME NEW dir, NEW run, run.segmented \/ dir.comparison = None
  PROVE  OneRange(Found!Written(dir, run, 3))
BY DEF OneRange, Found!Written

(***************************************************************************)
(* A profile that may be written is about training days, and so are all    *)
(* the files it is made from, if each directory is about one range of days *)
(* (check_diagnostics_provenance_safety).                                  *)
(***************************************************************************)
THEOREM WrittenFromTraining ==
  ASSUME NEW time, NEW days, NEW dirs, \A n \in DOMAIN dirs : OneRange(dirs[n]),
         Found!MayWrite(time, days, dirs, FALSE)
  PROVE  /\ Found!InTraining(time, days)
         /\ \A n \in DOMAIN dirs :
              /\ dirs[n].summary # None => Found!InTraining(time, dirs[n].summary)
              /\ dirs[n].comparison # None => Found!InTraining(time, dirs[n].comparison)
BY DEF OneRange, Found!MayWrite, Found!ProvenTraining

-----------------------------------------------------------------------------
(* The rows of the source.                                                 *)

\* The tables of a symbol: days are naturals, events in the order of their
\* announcement.
TablesOk(tables) ==
  /\ DOMAIN tables.daily \subseteq Nat
  /\ \E reports : tables.events \in Seq(reports)
  /\ \A n \in DOMAIN tables.events : tables.events[n].ann \in Nat
  /\ \A n, m \in DOMAIN tables.events : n <= m => tables.events[n].ann <= tables.events[m].ann

\* The last of some days up to a day, and the first.
LEMMA LatestOf ==
  ASSUME NEW S \in SUBSET Nat, S # {}, NEW d \in Nat, \A e \in S : e <= d
  PROVE  Source!Latest(S) \in S /\ \A e \in S : e <= Source!Latest(S)
<1>1. S \in SUBSET (0..d)
  OBVIOUS
<1>2. \E g \in S : \A e \in S : g >= e
  BY <1>1, GreatestExists
<1>3. \E g \in S : \A e \in S : e <= g
  BY <1>2
<1> QED BY <1>3 DEF Source!Latest

LEMMA EarliestOf ==
  ASSUME NEW S \in SUBSET Nat, S # {}
  PROVE  /\ Source!Earliest(S) \in S /\ \A e \in S : Source!Earliest(S) <= e
         /\ \A x \in S : (\A e \in S : x <= e) => x = Source!Earliest(S)
<1>1. Source!Earliest(S) \in S /\ \A e \in S : Source!Earliest(S) <= e
  BY LeastExists DEF Source!Earliest
<1>2. ASSUME NEW x \in S, \A e \in S : x <= e PROVE x = Source!Earliest(S)
  <2>1. x <= Source!Earliest(S) /\ Source!Earliest(S) <= x
    BY <1>1, <1>2
  <2>2. x \in Nat /\ Source!Earliest(S) \in Nat
    BY <1>1
  <2> QED BY <2>1, <2>2
<1> QED BY <1>1, <1>2

\* The prices of a day are read from rows up to it.
LEMMA PricesLookBack ==
  ASSUME NEW tables, DOMAIN tables.daily \subseteq Nat, NEW d \in Nat, NEW t \in DOMAIN tables.daily, t <= d
  PROVE  /\ t \in DOMAIN PublishedOf(tables, d).daily
         /\ Source!AdjustedClose(PublishedOf(tables, d), t) = Source!AdjustedClose(tables, t)
         /\ Source!ProcessedRow(PublishedOf(tables, d), t) = Source!ProcessedRow(tables, t)
         /\ Source!AkshareRow(PublishedOf(tables, d), t) = Source!AkshareRow(tables, t)
         /\ Source!Return(PublishedOf(tables, d), t) = Source!Return(tables, t)
<1> DEFINE cut == PublishedOf(tables, d)
           earlier == {e \in DOMAIN tables.daily : e < t}
<1>1. /\ cut.daily = UpTo(tables.daily, d) /\ cut.factor = UpTo(tables.factor, d)
      /\ cut.limit = UpTo(tables.limit, d) /\ cut.basic = UpTo(tables.basic, d)
  BY DEF PublishedOf
<1> HIDE DEF cut
<1>2. \A table : /\ \A e \in DOMAIN UpTo(table, d) : e \in DOMAIN table /\ UpTo(table, d)[e] = table[e]
                 /\ \A e \in DOMAIN table : e <= d => e \in DOMAIN UpTo(table, d)
  BY DEF UpTo
<1>3. \A table, e : e <= d => Source!Row(UpTo(table, d), e) = Source!Row(table, e)
  BY <1>2 DEF Source!Row
<1>4. ASSUME NEW e \in DOMAIN tables.daily, e <= d
      PROVE  /\ cut.daily[e] = tables.daily[e] /\ Source!Factor(cut, e) = Source!Factor(tables, e)
             /\ Source!AdjustedClose(cut, e) = Source!AdjustedClose(tables, e)
  <2>1. Source!Factor(cut, e) = Source!Factor(tables, e)
    BY <1>1, <1>2, <1>3, <1>4 DEF Source!Factor, Source!Row
  <2> QED BY <1>1, <1>2, <1>4, <2>1 DEF Source!AdjustedClose
<1>5. {e \in DOMAIN cut.daily : e < t} = earlier
  BY <1>1, <1>2
<1>6. earlier # {} => Source!Latest(earlier) \in earlier /\ Source!Latest(earlier) <= d
  <2>1. earlier \in SUBSET Nat /\ \A e \in earlier : e <= d
    OBVIOUS
  <2> HIDE DEF earlier
  <2>2. earlier # {} => Source!Latest(earlier) \in earlier
    BY <2>1, LatestOf
  <2> QED BY <2>1, <2>2
<1>7. earlier # {} => Source!AdjustedClose(cut, Source!Latest(earlier))
                        = Source!AdjustedClose(tables, Source!Latest(earlier))
  BY <1>4, <1>6
<1> HIDE DEF earlier
<1>8. Source!Return(cut, t) = Source!Return(tables, t)
  BY <1>4, <1>5, <1>7 DEF Source!Return, earlier
<1>9. /\ Source!OrDefault(cut.limit, t) = Source!OrDefault(tables.limit, t)
       /\ Source!OrDefault(cut.basic, t) = Source!OrDefault(tables.basic, t)
  BY <1>1, <1>2, <1>3 DEF Source!OrDefault, Source!Row
<1>10. Source!ProcessedRow(cut, t) = Source!ProcessedRow(tables, t)
  BY <1>4, <1>5, <1>7, <1>9 DEF Source!ProcessedRow, Source!PreClose, earlier
<1>11. Source!AkshareRow(cut, t) = Source!AkshareRow(tables, t)
  BY <1>1, <1>3, <1>4 DEF Source!AkshareRow
<1> QED BY <1>1, <1>2, <1>4, <1>8, <1>10, <1>11 DEF cut

\* The events announced before a day are a beginning of the events.
LEMMA AnnouncedPrefix ==
  ASSUME NEW tables, TablesOk(tables), NEW d \in Nat
  PROVE  LET events == tables.events
             before == Announced(events, d)
         IN  \E c \in 0..Len(events) :
               /\ {n \in DOMAIN events : events[n].ann < d} = 1..c
               /\ Len(before) = c /\ DOMAIN before = 1..c
               /\ \A n \in 1..c : before[n] = events[n]
               /\ before = <<>> <=> c = 0
               /\ \E reports : before \in Seq(reports)
<1> DEFINE events == tables.events
           early == {n \in DOMAIN events : events[n].ann < d}
           c == Cardinality(early)
<1>1. PICK reports : events \in Seq(reports)
  BY DEF TablesOk
<1>2. /\ Len(events) \in Nat /\ DOMAIN events = 1..Len(events)
      /\ \A n \in DOMAIN events : events[n].ann \in Nat
      /\ \A n, m \in DOMAIN events : n <= m => events[n].ann <= events[m].ann
  BY <1>1 DEF TablesOk
<1>3. PICK last \in 0..Len(events) : early = 1..last
  <2>1. CASE early = {}
    BY <1>2, <2>1
  <2>2. CASE early # {}
    <3>1. early \in SUBSET (0..Len(events))
      BY <1>2
    <3>2. PICK g \in early : \A n \in early : g >= n
      <4> HIDE DEF early
      <4> QED BY <1>2, <2>2, <3>1, GreatestExists
    <3>3. early = 1..g
      BY <1>2, <3>2
    <3> QED BY <1>2, <3>3
  <2> QED BY <2>1, <2>2
<1>4. c = last
  <2>1. last \in Nat
    BY <1>2
  <2>2. Cardinality(1..last) = IF 1 > last THEN 0 ELSE last - 1 + 1
    BY <2>1, FS_Interval
  <2>3. c = Cardinality(1..last)
    BY <1>3
  <2> HIDE DEF c, early
  <2> QED BY <2>1, <2>2, <2>3
<1>5. Announced(events, d) = SubSeq(events, 1, c)
  BY DEF Announced
<1> HIDE DEF events, c
<1>6. /\ SubSeq(events, 1, c) \in Seq(reports) /\ Len(SubSeq(events, 1, c)) = c
      /\ \A n \in 1..c : SubSeq(events, 1, c)[n] = events[n]
  BY <1>1, <1>2, <1>3, <1>4, SubSeqProperties
<1>7. DOMAIN Announced(events, d) = 1..c /\ (Announced(events, d) = <<>> <=> c = 0)
  BY <1>3, <1>4, <1>5, <1>6
<1> QED BY <1>3, <1>4, <1>5, <1>6, <1>7 DEF events

\* An event is in effect from the first trading day after its announcement.
LEMMA InEffectWhen ==
  ASSUME NEW days \in SUBSET Nat, NEW event, event.ann \in Nat, NEW t \in Nat
  PROVE  /\ Source!Available(days, event) # None /\ Source!Available(days, event) <= t
              <=> \E e \in days : event.ann < e /\ e <= t
         /\ (\E e \in days : event.ann < e) =>
              /\ Source!Available(days, event) \in days
              /\ event.ann < Source!Available(days, event)
              /\ \A e \in days : event.ann < e => Source!Available(days, event) <= e
<1> DEFINE later == {e \in days : e > event.ann}
<1>1. Source!Available(days, event) = IF later = {} THEN None ELSE Source!Earliest(later)
  BY DEF Source!Available
<1>2. later # {} => Source!Earliest(later) \in later /\ \A e \in later : Source!Earliest(later) <= e
  BY EarliestOf
<1>3. later # {} => Source!Earliest(later) # None
  <2>1. \A e \in later : e \in Int
    OBVIOUS
  <2> HIDE DEF later
  <2> QED BY <1>2, <2>1, SentinelAssumption
<1>4. \A e \in days : event.ann < e <=> e \in later
  OBVIOUS
<1>5. later \in SUBSET days
  OBVIOUS
<1> HIDE DEF later
<1>6. CASE later = {}
  BY <1>1, <1>4, <1>6
<1>7. CASE later # {}
  <2> DEFINE a == Source!Available(days, event)
  <2>1. a = Source!Earliest(later) /\ a # None
    BY <1>1, <1>3, <1>7
  <2>2. a \in later /\ \A e \in later : a <= e
    BY <1>2, <1>7, <2>1
  <2>3. a \in days /\ event.ann < a /\ \A e \in days : event.ann < e => a <= e
    BY <1>4, <1>5, <2>2
  <2> HIDE DEF a
  <2>4. a \in Nat
    BY <2>3
  <2>5. (\E e \in days : event.ann < e /\ e <= t) => a <= t
    BY <2>3, <2>4
  <2>6. a <= t <=> \E e \in days : event.ann < e /\ e <= t
    BY <2>3, <2>5
  <2> QED BY <2>1, <2>3, <2>6 DEF a
<1> QED BY <1>6, <1>7

\* Of the events in effect the last is shown.
LEMMA CurrentIsLast ==
  ASSUME NEW days \in SUBSET Nat, NEW events, \E reports : events \in Seq(reports),
         \A n \in DOMAIN events : events[n].ann \in Nat,
         \A n, m \in DOMAIN events : n <= m => events[n].ann <= events[m].ann,
         NEW t \in Nat, Source!InEffect(days, events, t) # {}
  PROVE  /\ Source!Current(days, events, t) \in Source!InEffect(days, events, t)
         /\ \A n \in Source!InEffect(days, events, t) : n <= Source!Current(days, events, t)
<1> DEFINE S == Source!InEffect(days, events, t)
           When(n) == Source!Available(days, events[n])
           Wins(n) == \A k \in S : When(k) < When(n) \/ (When(k) = When(n) /\ k <= n)
<1>1. Len(events) \in Nat /\ DOMAIN events = 1..Len(events)
  OBVIOUS
<1>2. S \in SUBSET (1..Len(events))
  BY <1>1 DEF Source!InEffect
<1>3. \A n \in S : When(n) \in Nat /\ events[n].ann < When(n)
                   /\ \A e \in days : events[n].ann < e => When(n) <= e
  BY InEffectWhen DEF Source!InEffect
<1>4. \A n, k \in S : k <= n => When(k) <= When(n)
  <2> SUFFICES ASSUME NEW n \in S, NEW k \in S, k <= n PROVE When(k) <= When(n)
    OBVIOUS
  <2>1. events[k].ann <= events[n].ann /\ events[k].ann \in Nat /\ events[n].ann \in Nat
    BY <1>1, <1>2
  <2>2. When(n) \in days
    BY <2>1, InEffectWhen DEF Source!InEffect
  <2> QED BY <1>3, <2>1, <2>2
<1> HIDE DEF S, When
<1>5. PICK g \in S : \A n \in S : g >= n
  <2>1. S \in SUBSET (0..Len(events)) /\ S # {}
    BY <1>1, <1>2 DEF S
  <2> QED BY <1>1, <2>1, GreatestExists
<1>6. Wins(g)
  BY <1>2, <1>3, <1>4, <1>5
<1>7. Source!Current(days, events, t) = CHOOSE n \in S : Wins(n)
  BY DEF Source!Current, S, When
<1>8. Source!Current(days, events, t) \in S /\ Wins(Source!Current(days, events, t))
  BY <1>5, <1>6, <1>7
<1>9. ASSUME NEW n \in S PROVE n <= Source!Current(days, events, t)
  <2> DEFINE m == Source!Current(days, events, t)
  <2>1. m \in S /\ (When(n) < When(m) \/ n <= m)
    BY <1>8
  <2> HIDE DEF m
  <2>2. n \in Int /\ m \in Int /\ When(n) \in Nat /\ When(m) \in Nat
    BY <1>2, <1>3, <2>1
  <2>3. m <= n => When(m) <= When(n)
    BY <1>4, <2>1
  <2>4. n <= m
    BY <2>1, <2>2, <2>3
  <2> QED BY <2>4 DEF m
<1> QED BY <1>8, <1>9 DEF S

Cut(days, d) == {e \in days : e <= d}

\* The days a symbol's published tables keep.
LEMMA PublishedDays ==
  ASSUME NEW tables, DOMAIN tables.daily \subseteq Nat, NEW d \in Nat
  PROVE  /\ DOMAIN PublishedOf(tables, d).daily = Cut(DOMAIN tables.daily, d)
         /\ PublishedOf(tables, d).events = Announced(tables.events, d)
  BY DEF PublishedOf, UpTo, Cut

\* Events announced before a day are in effect up to it as they are on all
\* days, and no others are.
LEMMA EffectsLookBack ==
  ASSUME NEW tables, TablesOk(tables), NEW d \in Nat, NEW t \in Nat, t <= d
  PROVE  LET days == DOMAIN tables.daily
             before == Announced(tables.events, d)
         IN  /\ Source!InEffect(Cut(days, d), before, t) = Source!InEffect(days, tables.events, t)
             /\ \A n \in Source!InEffect(days, tables.events, t) : before[n] = tables.events[n]
<1> DEFINE days == DOMAIN tables.daily
           events == tables.events
           before == Announced(events, d)
           now == Source!InEffect(days, events, t)
           then == Source!InEffect(Cut(days, d), before, t)
           Early(e, n) == events[n].ann < e /\ e <= t
<1>1. PICK c \in 0..Len(events) :
        /\ {n \in DOMAIN events : events[n].ann < d} = 1..c
        /\ DOMAIN before = 1..c
        /\ \A n \in 1..c : before[n] = events[n]
  BY AnnouncedPrefix
<1>2. days \in SUBSET Nat /\ Cut(days, d) \in SUBSET Nat /\ \A n \in DOMAIN events : events[n].ann \in Nat
  BY DEF TablesOk, Cut
<1>3. 1..c \in SUBSET DOMAIN events
  BY <1>1
<1> HIDE DEF before, events, days
<1>4. \A n \in DOMAIN events : n \in now <=> \E e \in days : Early(e, n)
  BY <1>2, InEffectWhen DEF Source!InEffect
<1>5. \A n \in 1..c : n \in then <=> \E e \in Cut(days, d) : Early(e, n)
  BY <1>1, <1>2, <1>3, InEffectWhen DEF Source!InEffect
<1>6. \A n \in DOMAIN events : (\E e \in days : Early(e, n)) <=> n \in 1..c /\ \E e \in Cut(days, d) : Early(e, n)
  <2> SUFFICES ASSUME NEW n \in DOMAIN events
               PROVE  (\E e \in days : Early(e, n)) <=> n \in 1..c /\ \E e \in Cut(days, d) : Early(e, n)
    OBVIOUS
  <2>1. ASSUME NEW e \in days, Early(e, n) PROVE n \in 1..c /\ e \in Cut(days, d)
    BY <1>1, <1>2, <2>1 DEF Cut
  <2> QED BY <2>1 DEF Cut
<1>7. now \in SUBSET DOMAIN events /\ then \in SUBSET (1..c)
  BY <1>1 DEF Source!InEffect
<1> HIDE DEF now, then, Early
<1>8. \A n \in DOMAIN events : n \in now <=> n \in then
  BY <1>3, <1>4, <1>5, <1>6, <1>7
<1>9. now = then
  BY <1>3, <1>7, <1>8
<1> QED BY <1>1, <1>7, <1>9 DEF now, then, before, events, days

\* What is shown of the events looks back.
LEMMA EventsLookBack ==
  ASSUME NEW tables, TablesOk(tables), NEW d \in Nat, NEW t \in Nat, t <= d
  PROVE  LET cut == PublishedOf(tables, d)
         IN  Source!Sidecar(DOMAIN cut.daily, cut.events, t)
               = Source!Sidecar(DOMAIN tables.daily, tables.events, t)
<1> DEFINE days == DOMAIN tables.daily
           events == tables.events
           before == Announced(events, d)
           now == Source!InEffect(days, events, t)
           then == Source!InEffect(Cut(days, d), before, t)
           m == Source!Current(days, events, t)
           k == Source!Current(Cut(days, d), before, t)
<1>1. then = now /\ \A n \in now : before[n] = events[n]
  BY EffectsLookBack
<1>2. /\ days \in SUBSET Nat /\ Cut(days, d) \in SUBSET Nat
      /\ \E reports : events \in Seq(reports)
      /\ \A n \in DOMAIN events : events[n].ann \in Nat
      /\ \A n, o \in DOMAIN events : n <= o => events[n].ann <= events[o].ann
  BY DEF TablesOk, Cut
<1>3. PICK c \in 0..Len(events) :
        /\ DOMAIN before = 1..c /\ \A n \in 1..c : before[n] = events[n]
        /\ \E reports : before \in Seq(reports)
  BY AnnouncedPrefix
<1>4. 1..c \in SUBSET DOMAIN events /\ DOMAIN events \in SUBSET Nat
  BY <1>2, <1>3
<1>5. /\ \A n \in DOMAIN before : before[n].ann \in Nat
      /\ \A n, o \in DOMAIN before : n <= o => before[n].ann <= before[o].ann
  BY <1>2, <1>3, <1>4
<1>6. now # {} => m \in now /\ \A n \in now : n <= m
  BY <1>2, CurrentIsLast
<1>7. then # {} => k \in then /\ \A n \in then : n <= k
  BY <1>2, <1>3, <1>5, CurrentIsLast
<1>8. now \in SUBSET Nat
  BY <1>4 DEF Source!InEffect
<1>9. Source!Sidecar(days, events, t)
        = IF now = {} THEN None ELSE <<events[m].value, t - events[m].ann>>
  BY DEF Source!Sidecar
<1>10. Source!Sidecar(Cut(days, d), before, t)
        = IF then = {} THEN None ELSE <<before[k].value, t - before[k].ann>>
  BY DEF Source!Sidecar
<1> HIDE DEF now, then, m, k, before, events, days
<1>11. now # {} => m = k /\ before[m] = events[m]
  <2>1. now # {} => m <= k /\ k <= m /\ m \in Nat /\ k \in Nat
    BY <1>1, <1>6, <1>7, <1>8
  <2>2. now # {} => m = k
    BY <2>1
  <2> QED BY <1>1, <1>6, <2>2
<1>12. Source!Sidecar(Cut(days, d), before, t) = Source!Sidecar(days, events, t)
  BY <1>1, <1>9, <1>10, <1>11
<1> QED BY <1>2, <1>12, PublishedDays DEF before, events, days

\* On a day of trading the newest report announced before it is shown.
LEMMA NewestIsShown ==
  ASSUME NEW tables, TablesOk(tables), NEW d \in DOMAIN tables.daily
  PROVE  Source!Sidecar(DOMAIN tables.daily, tables.events, d) = Newest(tables.events, d)
<1> DEFINE days == DOMAIN tables.daily
           events == tables.events
           before == Announced(events, d)
           now == Source!InEffect(days, events, d)
           m == Source!Current(days, events, d)
<1>1. /\ days \in SUBSET Nat /\ d \in Nat
      /\ \E reports : events \in Seq(reports)
      /\ \A n \in DOMAIN events : events[n].ann \in Nat
      /\ \A n, o \in DOMAIN events : n <= o => events[n].ann <= events[o].ann
  BY DEF TablesOk
<1>2. PICK c \in 0..Len(events) :
        /\ {n \in DOMAIN events : events[n].ann < d} = 1..c
        /\ Len(before) = c /\ \A n \in 1..c : before[n] = events[n]
        /\ before = <<>> <=> c = 0
  BY <1>1, AnnouncedPrefix
<1>3. \A n \in DOMAIN events : n \in now <=> \E e \in days : events[n].ann < e /\ e <= d
  BY <1>1, InEffectWhen DEF Source!InEffect
<1>4. \A n \in DOMAIN events : n \in now <=> events[n].ann < d
  <2> SUFFICES ASSUME NEW n \in DOMAIN events PROVE n \in now <=> events[n].ann < d
    OBVIOUS
  <2>1. events[n].ann \in Nat /\ d \in days /\ d <= d
    BY <1>1
  <2>2. ASSUME NEW e \in days, events[n].ann < e /\ e <= d PROVE events[n].ann < d
    BY <1>1, <2>1, <2>2
  <2> HIDE DEF now
  <2> QED BY <1>3, <2>1, <2>2
<1>5. now = {n \in DOMAIN events : events[n].ann < d}
  BY <1>4 DEF Source!InEffect
<1>6. now # {} => m \in now /\ \A n \in now : n <= m
  BY <1>1, CurrentIsLast
<1>7. Source!Sidecar(days, events, d)
        = IF now = {} THEN None ELSE <<events[m].value, d - events[m].ann>>
  BY DEF Source!Sidecar
<1>8. Newest(events, d) = IF before = <<>> THEN None
                          ELSE <<before[Len(before)].value, d - before[Len(before)].ann>>
  BY DEF Newest
<1>9. c \in Nat /\ (c # 0 => c \in 1..c) /\ now = 1..c
  <2>1. now = 1..c
    BY <1>2, <1>5
  <2>2. Len(events) \in Nat
    BY <1>1
  <2> HIDE DEF now, events, before
  <2>3. c \in Nat
    BY <1>2, <2>2
  <2> QED BY <2>1, <2>3
<1> HIDE DEF now, m, before, events, days
<1>10. c # 0 => m = c /\ before[c] = events[c]
  BY <1>2, <1>6, <1>9
<1>11. now = {} <=> before = <<>>
  BY <1>2, <1>9
<1>12. Source!Sidecar(days, events, d) = Newest(events, d)
  BY <1>2, <1>7, <1>8, <1>9, <1>10, <1>11
<1> QED BY <1>12 DEF events, days

MarketOk(market) == \A s \in DOMAIN market : TablesOk(market[s])

\* A row of a symbol, on a day it trades, is in what was published by a later
\* day, and says the same there.
LEMMA RowsLookBack ==
  ASSUME NEW market, MarketOk(market), NEW d \in Nat, NEW s \in DOMAIN market,
         NEW t \in DOMAIN market[s].daily, t <= d
  PROVE  LET known == PublishedBy(market, d)
         IN  /\ s \in DOMAIN known /\ known[s] = PublishedOf(market[s], d)
             /\ t \in DOMAIN known[s].daily
             /\ Source!ProcessedRow(known[s], t) = Source!ProcessedRow(market[s], t)
             /\ Source!AkshareRow(known[s], t) = Source!AkshareRow(market[s], t)
             /\ Source!Return(known[s], t) = Source!Return(market[s], t)
             /\ Source!Sidecar(DOMAIN known[s].daily, known[s].events, t)
                  = Source!Sidecar(DOMAIN market[s].daily, market[s].events, t)
             /\ Source!Contribution(known[s], t) = Source!Contribution(market[s], t)
BY PricesLookBack, EventsLookBack DEF PublishedBy, MarketOk, TablesOk,
   Source!Contribution

\* The members of the market on a day are those known later, and so are the
\* sums over them.
LEMMA MembersLookBack ==
  ASSUME NEW market, MarketOk(market), NEW industry, NEW d \in Nat, NEW t \in Nat, t <= d
  PROVE  LET known == PublishedBy(market, d)
         IN  /\ Source!Returning(known, t) = Source!Returning(market, t)
             /\ Source!DailyMean(known, Source!Returning(known, t), t)
                  = Source!DailyMean(market, Source!Returning(market, t), t)
             /\ \A i : /\ Source!MembersOn(known, industry, i, t) = Source!MembersOn(market, industry, i, t)
                       /\ Source!DailyMean(known, Source!MembersOn(known, industry, i, t), t)
                            = Source!DailyMean(market, Source!MembersOn(market, industry, i, t), t)
<1> DEFINE known == PublishedBy(market, d)
           traded == {s \in DOMAIN market : t \in DOMAIN market[s].daily}
<1>1. \A s \in traded : /\ s \in DOMAIN known /\ t \in DOMAIN known[s].daily
                        /\ Source!Return(known[s], t) = Source!Return(market[s], t)
                        /\ Source!Contribution(known[s], t) = Source!Contribution(market[s], t)
  BY RowsLookBack
<1>2. ASSUME NEW s \in DOMAIN known, t \in DOMAIN known[s].daily PROVE s \in traded
  BY <1>2 DEF PublishedBy, PublishedOf, UpTo
<1> HIDE DEF known
<1>3. Source!Returning(known, t) = Source!Returning(market, t)
  BY <1>1, <1>2 DEF Source!Returning
<1>4. Source!Returning(market, t) \subseteq traded
  BY DEF Source!Returning
<1>5. \A members : members \subseteq traded =>
        Source!DailyMean(known, members, t) = Source!DailyMean(market, members, t)
  BY <1>1 DEF Source!DailyMean
<1> HIDE DEF traded
<1> QED BY <1>3, <1>4, <1>5 DEF known, Source!MembersOn

\* So the context of an industry looks back.
LEMMA ContextLooksBack ==
  ASSUME NEW market, MarketOk(market), NEW industry, NEW i, NEW d \in Nat
  PROVE  Source!IndustryContext(PublishedBy(market, d), industry, i, d)
           = Source!IndustryContext(market, industry, i, d)
<1> DEFINE known == PublishedBy(market, d)
           Members(m, e) == Source!DailyMean(m, Source!MembersOn(m, industry, i, e), e)
           All(m, e) == Source!DailyMean(m, Source!Returning(m, e), e)
<1> HIDE DEF known
<1>1. \A e \in 0..d : /\ Source!Returning(known, e) = Source!Returning(market, e)
                      /\ Source!MembersOn(known, industry, i, e) = Source!MembersOn(market, industry, i, e)
                      /\ All(known, e) = All(market, e)
                      /\ Members(known, e) = Members(market, e)
  BY MembersLookBack DEF known
<1> HIDE DEF Members, All
<1>2. \A t \in 0..d : Source!IndustryDays(known, industry, i, t) = Source!IndustryDays(market, industry, i, t)
  BY <1>1 DEF Source!IndustryDays
<1>3. ASSUME NEW t \in 0..d
      PROVE  Source!RollingContext(known, industry, i, t) = Source!RollingContext(market, industry, i, t)
  <2> DEFINE Own(m) == Source!LastDays(Source!IndustryDays(m, industry, i, t))
             Whole(m) == Source!LastDays({e \in 0..t : Source!Returning(m, e) # {}})
  <2>1. \A m : Source!RollingContext(m, industry, i, t)
                 = <<{<<e, Members(m, e)>> : e \in Own(m)}, {<<e, All(m, e)>> : e \in Whole(m)}>>
    BY DEF Source!RollingContext, Members, All
  <2>2. Own(known) = Own(market) /\ Own(market) \subseteq 0..d
    BY <1>2 DEF Source!LastDays, Source!IndustryDays
  <2>3. Whole(known) = Whole(market) /\ Whole(market) \subseteq 0..d
    BY <1>1 DEF Source!LastDays
  <2> HIDE DEF Own, Whole
  <2>4. {<<e, Members(known, e)>> : e \in Own(known)} = {<<e, Members(market, e)>> : e \in Own(market)}
    BY <1>1, <2>2
  <2>5. {<<e, All(known, e)>> : e \in Whole(known)} = {<<e, All(market, e)>> : e \in Whole(market)}
    BY <1>1, <2>3
  <2> QED BY <2>1, <2>4, <2>5
<1> DEFINE days == Source!IndustryDays(market, industry, i, d)
<1>4. days # {} => Source!Latest(days) \in 0..d
  <2>1. days \in SUBSET Nat /\ days \subseteq 0..d /\ \A e \in days : e <= d
    BY DEF Source!IndustryDays
  <2> HIDE DEF days
  <2> QED BY <2>1, LatestOf
<1>5. Source!IndustryDays(known, industry, i, d) = days
  BY <1>2
<1> HIDE DEF days
<1> QED BY <1>3, <1>4, <1>5 DEF Source!IndustryContext, known, days

\* Two maps under which an industry has the same members of the market give it
\* the same context.
LEMMA ContextOfMembers ==
  ASSUME NEW market, NEW industry, NEW classified, NEW i, NEW d \in Nat,
         \A x \in DOMAIN market : (classified[x] = i) <=> (industry[x] = i)
  PROVE  Source!IndustryContext(market, classified, i, d)
           = Source!IndustryContext(market, industry, i, d)
<1>1. \A e : Source!MembersOn(market, classified, i, e) = Source!MembersOn(market, industry, i, e)
  BY DEF Source!MembersOn, Source!Returning
<1>2. \A t : Source!IndustryDays(market, classified, i, t) = Source!IndustryDays(market, industry, i, t)
  BY <1>1 DEF Source!IndustryDays
<1>3. \A t : Source!RollingContext(market, classified, i, t) = Source!RollingContext(market, industry, i, t)
  BY <1>1, <1>2 DEF Source!RollingContext
<1> QED BY <1>2, <1>3 DEF Source!IndustryContext

\* A row is what the market as published by its day and the classification of
\* its day give, but for the context of an industry whose members have changed.
RowLooksBack(market, industry, classified, s, d) ==
  LET row == Source!SourceRow(market, industry, s, d)
      known == PublishedBy(market, d)
      then == Source!SourceRow(known, classified, s, d)
  IN  /\ row.processed = then.processed
      /\ row.events = then.events
      /\ (\A x \in DOMAIN known : (classified[x] = industry[s]) <=> (industry[x] = industry[s]))
           => row.context = then.context
      /\ Source!AkshareRow(market[s], d) = Source!AkshareRow(known[s], d)
      /\ row.events = Newest(market[s].events, d)

(***************************************************************************)
(* What a source row says is known on its day: built from the market as it *)
(* was published by then it is the same row, of the events it shows the    *)
(* newest announced before, and its industry context is what the           *)
(* classification of that day gives, if the industry of its symbol had the *)
(* members then that it has now (packed source and processed tables, any   *)
(* market, any two classifications, any number of rows and events).        *)
(***************************************************************************)
THEOREM RowsArePointInTime ==
  ASSUME NEW market, MarketOk(market), NEW industry, NEW classified, NEW s \in DOMAIN market,
         NEW d \in DOMAIN market[s].daily
  PROVE  RowLooksBack(market, industry, classified, s, d)
<1> DEFINE known == PublishedBy(market, d)
           row == Source!SourceRow(market, industry, s, d)
           then == Source!SourceRow(known, classified, s, d)
<1>1. d \in Nat /\ TablesOk(market[s])
  BY DEF MarketOk, TablesOk
<1>2. /\ s \in DOMAIN known
      /\ row.processed = then.processed /\ row.events = then.events
      /\ Source!AkshareRow(market[s], d) = Source!AkshareRow(known[s], d)
      /\ row.events = Newest(market[s].events, d)
  BY <1>1, NewestIsShown, RowsLookBack DEF Source!SourceRow
<1>3. ASSUME \A x \in DOMAIN known : (classified[x] = industry[s]) <=> (industry[x] = industry[s])
      PROVE  row.context = then.context
  <2>1. classified[s] = industry[s]
    BY <1>2, <1>3
  <2>2. Source!IndustryContext(known, classified, industry[s], d)
          = Source!IndustryContext(known, industry, industry[s], d)
    <3> HIDE DEF known
    <3> QED BY <1>1, <1>3, ContextOfMembers
  <2>3. Source!IndustryContext(known, industry, industry[s], d)
          = Source!IndustryContext(market, industry, industry[s], d)
    BY <1>1, ContextLooksBack
  <2> HIDE DEF known
  <2> QED BY <2>1, <2>2, <2>3 DEF Source!SourceRow
<1> QED BY <1>2, <1>3 DEF RowLooksBack

\* The days and the events of drawn tables.
TablesOf(tables, events) == DOMAIN tables.daily \subseteq Nat /\ tables.events = events
LEMMA DrawnTables ==
  ASSUME NEW days, days \subseteq 1..3, NEW gap, NEW split, NEW events
  PROVE  TablesOf(Tables(days, gap, split, events), events)
BY DEF Tables, TablesOf

\* The markets the module draws are in order.
LEMMA DrawnMarketOk == SourceCase => MarketOk(case.market)
<1> SUFFICES ASSUME SourceCase PROVE MarketOk(case.market)
  OBVIOUS
<1>1. PICK D, E \in (SUBSET (1..3)) \ {{}}, gap \in {0, 2}, split \in {0, 3},
           first, second \in 0..3, other \in {"bank", "steel"},
           before \in [{"a", "b"} -> {"bank", "steel"}] :
        /\ first <= second
        /\ case = [market |-> [a |-> Tables(D, gap, split, <<[ann |-> first, value |-> "old"],
                                                               [ann |-> second, value |-> "new"]>>),
                               b |-> Tables(E, 0, 0, <<[ann |-> second, value |-> "b"]>>)],
                   industry |-> [a |-> "bank", b |-> other],
                   classified |-> <<before, before, [a |-> "bank", b |-> other]>>]
  BY DEF SourceCase
<1> DEFINE old == [ann |-> first, value |-> "old"]
           new == [ann |-> second, value |-> "new"]
           two == <<old, new>>
           one == <<[ann |-> second, value |-> "b"]>>
<1>2. /\ DOMAIN case.market = {"a", "b"}
      /\ case.market["a"] = Tables(D, gap, split, two) /\ case.market["b"] = Tables(E, 0, 0, one)
  BY <1>1
<1>3. /\ two \in Seq({old, new}) /\ DOMAIN two = {1, 2}
      /\ two[1].ann = first /\ two[2].ann = second
  OBVIOUS
<1>4. one \in Seq({one[1]}) /\ DOMAIN one = {1} /\ one[1].ann = second
  OBVIOUS
<1>5. first \in Nat /\ second \in Nat /\ first <= second
  BY <1>1
<1> HIDE DEF two, one
<1>6. TablesOk(Tables(D, gap, split, two))
  <2> DEFINE tables == Tables(D, gap, split, two)
  <2>1. DOMAIN tables.daily \subseteq Nat /\ tables.events = two
    <3>1. D \subseteq 1..3
      OBVIOUS
    <3>2. TablesOf(tables, two)
      BY <3>1, DrawnTables
    <3> HIDE DEF tables
    <3> QED BY <3>2 DEF TablesOf
  <2> HIDE DEF tables, old, new
  <2>2. \A n \in DOMAIN two : two[n].ann \in Nat
    BY <1>3, <1>5
  <2>3. TablesOk(tables)
    BY <1>3, <1>5, <2>1, <2>2 DEF TablesOk
  <2> QED BY <2>3 DEF tables
<1>7. TablesOk(Tables(E, 0, 0, one))
  <2> DEFINE tables == Tables(E, 0, 0, one)
  <2>1. DOMAIN tables.daily \subseteq Nat /\ tables.events = one
    <3>1. E \subseteq 1..3
      OBVIOUS
    <3>2. TablesOf(tables, one)
      BY <3>1, DrawnTables
    <3> HIDE DEF tables
    <3> QED BY <3>2 DEF TablesOf
  <2> HIDE DEF tables
  <2>2. \A n, m \in DOMAIN one : n <= m => one[n].ann <= one[m].ann
    BY <1>4, <1>5
  <2>3. TablesOk(tables)
    BY <1>4, <1>5, <2>1, <2>2 DEF TablesOk
  <2> QED BY <2>3 DEF tables
<1> QED BY <1>2, <1>6, <1>7 DEF MarketOk

-----------------------------------------------------------------------------
(* Degrees of risk.                                                        *)

\* The numbers of the inputs: what is not a number is NaN.
Values(values) == \A i \in DOMAIN values : values[i] \in Int \cup {NaN}

BenchmarkRows == [day : Int, value : Int \cup {NaN}]

\* The metrics of the drawn records.
Metrics == {"label_mean", "positive_rate"}

\* Rows of scores, a benchmark by days and records of validation windows.
RiskInputOk(input) ==
  /\ input = [scores |-> input.scores, benchmark |-> input.benchmark, records |-> input.records]
  /\ \E rows : input.scores \in Seq(rows)
  /\ \A d \in DOMAIN input.scores :
       /\ Values(input.scores[d])
       /\ \E n \in Nat : DOMAIN input.scores[d] = 1..n
  /\ input.benchmark \in Seq(BenchmarkRows)
  /\ \E n \in Nat : DOMAIN input.records = 1..n
  /\ \A n \in DOMAIN input.records, m \in Metrics : input.records[n][m] \in Int \cup {NaN}

\* The signal of a day and of those before it.
LEMMA SignalsLookBack ==
  ASSUME NEW input, NEW cfg, \E rows : input.scores \in Seq(rows), NEW d \in DOMAIN input.scores,
         NEW known, known.scores = SubSeq(input.scores, 1, d), known.records = input.records
  PROVE  /\ d \in DOMAIN Risk!SignalSeries(known, cfg) /\ d \in DOMAIN Risk!SignalSeries(input, cfg)
         /\ \A e \in 1..d : Risk!SignalSeries(known, cfg)[e] = Risk!SignalSeries(input, cfg)[e]
<1>1. PICK rows : input.scores \in Seq(rows)
  OBVIOUS
<1>2. d \in 1..Len(input.scores) /\ Len(input.scores) \in Nat /\ DOMAIN input.scores = 1..Len(input.scores)
  BY <1>1
<1>3. DOMAIN known.scores = 1..d /\ \A e \in 1..d : known.scores[e] = input.scores[e]
  BY <1>1, <1>2, SubSeqMembers
<1>4. 1..d \subseteq DOMAIN input.scores /\ d \in 1..d
  BY <1>2
<1>5. CASE cfg.source = "validation_metric"
  BY <1>2, <1>3, <1>4, <1>5 DEF Risk!SignalSeries, Risk!ValidationSeries
<1>6. CASE cfg.source # "validation_metric"
  BY <1>2, <1>3, <1>4, <1>6 DEF Risk!SignalSeries, Risk!StrengthSeries
<1> QED BY <1>5, <1>6

\* So does the degree of risk that a signal gives.
LEMMA SignalScheduleLooksBack ==
  ASSUME NEW cfg, NEW s, NEW t, NEW d \in Nat \ {0}, d \in DOMAIN s, d \in DOMAIN t,
         \A e \in 1..d : s[e] = t[e]
  PROVE  Risk!SignalSchedule(s, cfg)[d] = Risk!SignalSchedule(t, cfg)[d]
<1>1. Risk!History(s, d) = Risk!History(t, d)
  <2>1. \A e \in 1..(d - 1) : s[e] = t[e]
    OBVIOUS
  <2>2. SubSeq(s, 1, d - 1) = SubSeq(t, 1, d - 1)
    BY <2>1, SubSeqAgree
  <2> QED BY <2>2 DEF Risk!History
<1> QED BY <1>1 DEF Risk!SignalSchedule

\* A value in order is that of an index with as many before it.
LEMMA SortedAt ==
  ASSUME NEW values, Values(values), IsFiniteSet(DOMAIN values), DOMAIN values \subseteq Int
  PROVE  LET known == Risk!FiniteAt(values)
         IN  /\ IsFiniteSet(known) /\ Cardinality(known) \in Nat
             /\ \A i \in known : values[i] \in Int
             /\ DOMAIN Risk!Sorted(values) = 1..Cardinality(known)
             /\ \A n \in 1..Cardinality(known) : \E i \in known :
                  /\ Cardinality(Risk!Before(values, i)) = n - 1
                  /\ Risk!Sorted(values)[n] = values[i]
<1> DEFINE known == Risk!FiniteAt(values)
           Less(j, i) == values[j] < values[i] \/ (values[j] = values[i] /\ j < i)
           R == {p \in known \X known : Less(p[1], p[2])}
<1>1. known \in SUBSET DOMAIN values /\ known \in SUBSET Int /\ \A i \in known : values[i] \in Int
  BY DEF Risk!FiniteAt, Values
<1>2. IsFiniteSet(known) /\ Cardinality(known) \in Nat
  BY <1>1, FS_Subset, FS_CardinalityType
<1> DEFINE At(n) == CHOOSE i \in known : Cardinality(Risk!Before(values, i)) = n - 1
<1>3. Risk!Sorted(values) = [n \in 1..Cardinality(known) |-> values[At(n)]]
  BY DEF Risk!Sorted, Risk!Cardinality, Cardinality
<1>4. \A i \in known : Risk!Before(values, i) = Ahead(R, known, i)
  BY DEF Risk!Before, Ahead
<1> HIDE DEF known
<1>5. Orders(R, known)
  BY <1>1 DEF Orders
<1>6. ASSUME NEW n \in 1..Cardinality(known)
      PROVE  \E i \in known : Cardinality(Risk!Before(values, i)) = n - 1
  <2> DEFINE rank == [x \in known |-> Cardinality(Ahead(R, known, x))]
  <2>1. rank \in Bijection(known, 0..(Cardinality(known) - 1))
    BY <1>2, <1>5, EveryRankOnce
  <2>2. n - 1 \in 0..(Cardinality(known) - 1)
    BY <1>2
  <2>3. \E i \in known : rank[i] = n - 1
    <3> HIDE DEF rank
    <3> QED BY <2>1, <2>2 DEF Bijection, Surjection
  <2> QED BY <1>4, <2>3
<1>7. ASSUME NEW n \in 1..Cardinality(known)
      PROVE  At(n) \in known /\ Cardinality(Risk!Before(values, At(n))) = n - 1
  BY <1>6, <1>7
<1> HIDE DEF At
<1>8. /\ DOMAIN Risk!Sorted(values) = 1..Cardinality(known)
      /\ \A n \in 1..Cardinality(known) : Risk!Sorted(values)[n] = values[At(n)]
  BY <1>3
<1> QED BY <1>1, <1>2, <1>7, <1>8 DEF known

\* RiskSchedule takes its sizes and sums from the library.
LEMMA RiskOperators ==
  /\ \A S : Risk!Cardinality(S) = Cardinality(S)
  /\ \A f : Risk!Total(f) = SumFunctionOnSet(f, DOMAIN f)
  /\ \A f, S : Risk!SumFunctionOnSet(f, S) = SumFunctionOnSet(f, S)
<1>1. \A f, S : Risk!SumFunctionOnSet(f, S) = SumFunctionOnSet(f, S)
  BY DEF Risk!SumFunctionOnSet, Risk!FoldFunctionOnSet, Risk!MapThenFoldSet,
         SumFunctionOnSet, FoldFunctionOnSet, MapThenFoldSet
<1> QED
  BY <1>1 DEF Risk!Total, Risk!SumFunction, Risk!Cardinality, Cardinality

\* The greatest of some indices.
LEMMA MaxIndex ==
  ASSUME NEW m \in Nat, NEW S \in SUBSET (1..m), S # {}
  PROVE  Risk!Max(S) \in S
<1>1. S \in SUBSET (0..m)
  OBVIOUS
<1>2. \E x \in S : \A y \in S : x >= y
  BY <1>1, GreatestExists
<1> QED BY <1>2 DEF Risk!Max

\* The rows of a benchmark as they are known by a day.
Masked(rows, d) ==
  [n \in DOMAIN rows |-> IF rows[n].day >= d /\ rows[n].value # NaN
                         THEN [rows[n] EXCEPT !.value = 1] ELSE rows[n]]

\* The days of the benchmark file, and its values before a day, do not depend
\* on values of that day or later ones.
LEMMA FileLooksBack ==
  ASSUME NEW rows \in Seq(BenchmarkRows), NEW d \in Int, NEW later, later = Masked(rows, d)
  PROVE  LET file == Risk!BenchmarkFile(rows)
             known == Risk!BenchmarkFile(later)
         IN  /\ DOMAIN known = DOMAIN file
             /\ DOMAIN file \subseteq Int /\ IsFiniteSet(DOMAIN file)
             /\ \A e \in DOMAIN file : e < d => known[e] = file[e]
<1> DEFINE usable == {i \in DOMAIN rows : rows[i].value # NaN}
           days == {rows[i].day : i \in usable}
           On(e) == {i \in usable : rows[i].day = e}
<1>1. \A n \in DOMAIN rows : rows[n] \in BenchmarkRows
  OBVIOUS
<1> USE DEF Masked
<1>2. /\ DOMAIN later = DOMAIN rows
      /\ \A n \in DOMAIN rows : later[n].day = rows[n].day /\ (later[n].value # NaN <=> rows[n].value # NaN)
      /\ \A n \in DOMAIN rows : rows[n].day < d => later[n] = rows[n]
  <2>1. ASSUME NEW n \in DOMAIN rows
        PROVE  /\ later[n].day = rows[n].day /\ (later[n].value # NaN <=> rows[n].value # NaN)
               /\ rows[n].day < d => later[n] = rows[n]
    <3>1. rows[n].day \in Int /\ rows[n] = [day |-> rows[n].day, value |-> rows[n].value]
      BY <1>1 DEF BenchmarkRows
    <3>2. CASE rows[n].day >= d /\ rows[n].value # NaN
      BY <3>1, <3>2, SentinelAssumption
    <3>3. CASE ~(rows[n].day >= d /\ rows[n].value # NaN)
      BY <3>1, <3>3
    <3> QED BY <3>2, <3>3
  <2> QED BY <2>1
<1>3. \A e : {i \in usable : later[i].day = e} = On(e)
  BY <1>2
<1> DEFINE LastOf(r, e) == r[Risk!Max(On(e))].value
           late == {i \in DOMAIN later : later[i].value # NaN}
<1>4. /\ Risk!BenchmarkFile(rows) = [e \in days |-> LastOf(rows, e)]
      /\ Risk!BenchmarkFile(later) = [e \in days |-> LastOf(later, e)]
  <2>1. Risk!BenchmarkFile(rows) = [e \in days |-> LastOf(rows, e)]
    BY DEF Risk!BenchmarkFile
  <2> DEFINE OnLater(e) == {i \in late : later[i].day = e}
             laterDays == {later[i].day : i \in late}
  <2>2. Risk!BenchmarkFile(later) = [e \in laterDays |-> later[Risk!Max(OnLater(e))].value]
    BY DEF Risk!BenchmarkFile
  <2>3. late = usable
    BY <1>2
  <2>4. laterDays = days /\ \A e : OnLater(e) = On(e)
    <3> HIDE DEF late
    <3> QED BY <1>2, <1>3, <2>3
  <2> HIDE DEF OnLater, laterDays, On, days
  <2>5. \A e : later[Risk!Max(OnLater(e))].value = LastOf(later, e)
    BY <2>4
  <2>6. Risk!BenchmarkFile(later) = [e \in days |-> LastOf(later, e)]
    <3> HIDE DEF LastOf
    <3> QED BY <2>2, <2>4, <2>5
  <2> QED BY <2>1, <2>6
<1>5. \A e \in days : e < d => later[Risk!Max(On(e))] = rows[Risk!Max(On(e))]
  <2> SUFFICES ASSUME NEW e \in days, e < d
               PROVE  later[Risk!Max(On(e))] = rows[Risk!Max(On(e))]
    OBVIOUS
  <2>1. On(e) \in SUBSET (1..Len(rows)) /\ On(e) # {} /\ Len(rows) \in Nat
    OBVIOUS
  <2>2. \A i \in On(e) : i \in DOMAIN rows /\ rows[i].day = e
    OBVIOUS
  <2> HIDE DEF On
  <2>3. Risk!Max(On(e)) \in On(e)
    BY <2>1, MaxIndex
  <2> QED BY <1>2, <2>2, <2>3
<1>6. days \subseteq Int
  BY <1>1 DEF BenchmarkRows
<1>7. IsFiniteSet(days)
  <2>1. IsFiniteSet(usable)
    <3>1. IsFiniteSet(1..Len(rows))
      <4>1. Len(rows) \in Int /\ 1 \in Int
        OBVIOUS
      <4> QED BY <4>1, FS_Interval
    <3> QED BY <3>1, FS_Subset
  <2> DEFINE DayOf == [i \in usable |-> rows[i].day]
  <2>2. DayOf \in Surjection(usable, days)
    BY DEF Surjection
  <2> HIDE DEF usable, DayOf, days
  <2> QED BY <2>1, <2>2, FS_Surjection
<1> HIDE DEF days, On, late
<1>8. \A e \in days : e < d => LastOf(later, e) = LastOf(rows, e)
  BY <1>5
<1> HIDE DEF LastOf
<1> DEFINE file == Risk!BenchmarkFile(rows)
           known == Risk!BenchmarkFile(later)
<1>9. DOMAIN file = days /\ DOMAIN known = days
  BY <1>4
<1>10. \A e \in days : file[e] = LastOf(rows, e) /\ known[e] = LastOf(later, e)
  BY <1>4
<1> HIDE DEF file, known
<1>11. \A e \in days : e < d => known[e] = file[e]
  BY <1>8, <1>10
<1> QED BY <1>6, <1>7, <1>9, <1>11 DEF file, known

\* The listed days in order: those before a day come first.
LEMMA ListedBefore ==
  ASSUME NEW days \in SUBSET Int, IsFiniteSet(days), NEW d \in days
  PROVE  LET listed == Risk!Sorted([e \in days |-> e])
             k == Cardinality({e \in days : e <= d})
         IN  /\ DOMAIN listed = 1..Cardinality(days) /\ Cardinality(days) \in Nat
             /\ k \in 1..Cardinality(days)
             /\ \A n \in 1..(k - 1) : listed[n] \in days /\ listed[n] < d
<1> DEFINE id == [e \in days |-> e]
           listed == Risk!Sorted(id)
           upTo == {e \in days : e <= d}
           before == {e \in days : e < d}
<1>1. /\ DOMAIN id = days /\ \A e \in days : id[e] = e /\ e \in Int
      /\ Values(id)
  BY DEF Values
<1> HIDE DEF id
<1>2. Risk!FiniteAt(id) = days
  BY <1>1, SentinelAssumption DEF Risk!FiniteAt
<1>3. /\ Cardinality(days) \in Nat /\ DOMAIN listed = 1..Cardinality(days)
      /\ \A n \in 1..Cardinality(days) : \E i \in days :
           Cardinality(Risk!Before(id, i)) = n - 1 /\ listed[n] = id[i]
  <2>1. /\ IsFiniteSet(Risk!FiniteAt(id)) /\ Cardinality(Risk!FiniteAt(id)) \in Nat
        /\ DOMAIN Risk!Sorted(id) = 1..Cardinality(Risk!FiniteAt(id))
        /\ \A n \in 1..Cardinality(Risk!FiniteAt(id)) : \E i \in Risk!FiniteAt(id) :
             Cardinality(Risk!Before(id, i)) = n - 1 /\ Risk!Sorted(id)[n] = id[i]
    BY <1>1, SortedAt
  <2> QED BY <1>2, <2>1
<1> HIDE DEF listed
<1>4. /\ IsFiniteSet(upTo) /\ IsFiniteSet(before) /\ Cardinality(before) \in Nat
      /\ Cardinality(upTo) \in Nat /\ Cardinality(upTo) <= Cardinality(days)
      /\ Cardinality(upTo) = Cardinality(before) + 1
  <2>1. upTo \subseteq days /\ before \subseteq days
    OBVIOUS
  <2>2. d \in Int /\ \A e \in days : e <= d <=> e < d \/ e = d
    BY <1>1
  <2>3. upTo = before \cup {d} /\ d \notin before
    <3>1. ~(d < d)
      BY <2>2
    <3> QED BY <2>2, <3>1
  <2> HIDE DEF upTo, before
  <2>4. IsFiniteSet(upTo) /\ Cardinality(upTo) <= Cardinality(days) /\ IsFiniteSet(before)
    BY <2>1, FS_Subset
  <2>5. Cardinality(before \cup {d}) = Cardinality(before) + 1
    BY <2>3, <2>4, FS_AddElement
  <2> QED BY <2>3, <2>4, <2>5, FS_CardinalityType
<1>5. ASSUME NEW n \in 1..(Cardinality(upTo) - 1) PROVE listed[n] \in days /\ listed[n] < d
  <2>1. PICK i \in days : Cardinality(Risk!Before(id, i)) = n - 1 /\ listed[n] = id[i]
    BY <1>3, <1>4
  <2> DEFINE ahead == {j \in days : j < i}
  <2>2. Cardinality(ahead) = n - 1 /\ listed[n] = i
    BY <1>1, <1>2, <2>1 DEF Risk!Before
  <2>3. ASSUME i >= d PROVE FALSE
    <3>1. before \subseteq ahead
      <4>1. \A e \in days : e \in Int
        BY <1>1
      <4>2. \A e \in days : e < d => e < i
        BY <2>3, <4>1
      <4> QED BY <4>2
    <3>2. ahead \subseteq days
      OBVIOUS
    <3> HIDE DEF before, ahead
    <3>3. Cardinality(before) <= Cardinality(ahead)
      BY <3>1, <3>2, FS_Subset
    <3> HIDE DEF upTo
    <3> QED BY <1>4, <2>2, <3>3
  <2> QED BY <2>2, <2>3
<1> HIDE DEF upTo
<1> QED BY <1>3, <1>4, <1>5 DEF upTo, listed, id

\* What a moving average of some days says does not depend on later ones.
LEMMA RegimeLooksBack ==
  ASSUME NEW cfg, cfg.fast \in Int, cfg.slow \in Int, NEW m \in Nat,
         NEW s, NEW t, DOMAIN s = 1..m, DOMAIN t = 1..m,
         \E S : s \in Seq(S) /\ t \in Seq(S),
         NEW j \in 1..m, \A n \in 1..j : s[n] = t[n]
  PROVE  Risk!Regime(Risk!Nav(s, cfg.valueType), j, cfg)
           = Risk!Regime(Risk!Nav(t, cfg.valueType), j, cfg)
<1> DEFINE a == Risk!Nav(s, cfg.valueType)
           b == Risk!Nav(t, cfg.valueType)
<1>1. Len(s) = m /\ Len(t) = m
  OBVIOUS
<1>2. ASSUME NEW n \in 1..j PROVE a[n] = b[n]
  <2>1. CASE cfg.valueType = "close"
    BY <1>2, <2>1 DEF Risk!Nav
  <2>2. CASE cfg.valueType # "close"
    <3>1. n \in 1..m /\ n \in Int /\ 1 \in Int /\ j \in Int /\ n <= j
      OBVIOUS
    <3>2. SubSeq(s, 1, n) = SubSeq(t, 1, n)
      BY <3>1, SubSeqAgree
    <3> QED BY <1>1, <2>2, <3>1, <3>2 DEF Risk!Nav
  <2> QED BY <2>1, <2>2
<1> HIDE DEF a, b
<1>3. ASSUME NEW w \in Int PROVE Risk!AtLeastAverage(a, j, w) = Risk!AtLeastAverage(b, j, w)
  <2> DEFINE first == Risk!Most(1, j - w + 1)
  <2>1. first \in Int /\ first >= 1 /\ j \in Int
    BY DEF Risk!Most
  <2> HIDE DEF first
  <2>2. \A i \in first..j : a[i] = b[i]
    BY <1>2, <2>1
  <2>3. a[j] = b[j]
    BY <1>2
  <2> QED BY <2>1, <2>2, <2>3, SubSeqAgree DEF Risk!AtLeastAverage, first
<1> QED BY <1>3 DEF a, b, Risk!Regime

\* The regime of a day is that of the listed days before it.
LEMMA BenchmarkLooksBack ==
  ASSUME NEW cfg, cfg.fast \in Int, cfg.slow \in Int,
         NEW input, input.benchmark \in Seq(BenchmarkRows),
         NEW d \in Int, d \in DOMAIN input.scores,
         NEW known, d \in DOMAIN known.scores,
         known.benchmark = Masked(input.benchmark, d)
  PROVE  Risk!BenchmarkRisk(known, cfg)[d] = Risk!BenchmarkRisk(input, cfg)[d]
<1> DEFINE file == Risk!BenchmarkFile(input.benchmark)
           later == Risk!BenchmarkFile(known.benchmark)
           days == DOMAIN file
           listed == Risk!Sorted([e \in days |-> e])
           m == Cardinality(days)
           k == Cardinality({e \in days : e <= d})
           s == [n \in DOMAIN listed |-> file[listed[n]]]
           t == [n \in DOMAIN listed |-> later[listed[n]]]
<1>1. /\ DOMAIN later = days /\ days \subseteq Int /\ IsFiniteSet(days)
      /\ \A e \in days : e < d => later[e] = file[e]
  <2> DEFINE rows == input.benchmark
             cut == known.benchmark
  <2>1. rows \in Seq(BenchmarkRows) /\ cut = Masked(rows, d)
    OBVIOUS
  <2> HIDE DEF rows, cut
  <2>2. /\ DOMAIN Risk!BenchmarkFile(cut) = DOMAIN Risk!BenchmarkFile(rows)
        /\ DOMAIN Risk!BenchmarkFile(rows) \subseteq Int /\ IsFiniteSet(DOMAIN Risk!BenchmarkFile(rows))
        /\ \A e \in DOMAIN Risk!BenchmarkFile(rows) : e < d =>
             Risk!BenchmarkFile(cut)[e] = Risk!BenchmarkFile(rows)[e]
    BY <2>1, FileLooksBack
  <2> QED BY <2>2 DEF rows, cut
<1>2. d \in days => /\ DOMAIN listed = 1..m /\ m \in Nat /\ k \in 1..m
                    /\ \A n \in 1..(k - 1) : listed[n] \in days /\ listed[n] < d
  <2> HIDE DEF file
  <2> QED BY <1>1, ListedBefore
<1>3. Risk!BenchmarkRisk(input, cfg)[d]
        = IF d \in days THEN Risk!BenchmarkSchedule(Risk!Nav(s, cfg.valueType), cfg)[k] ELSE cfg.riskDegree
  <2>1. Risk!BenchmarkRisk(input, cfg)[d]
          = IF d \in days
            THEN Risk!BenchmarkSchedule(Risk!Nav(s, cfg.valueType), cfg)[Risk!Cardinality({e \in days : e <= d})]
            ELSE cfg.riskDegree
    BY DEF Risk!BenchmarkRisk
  <2> QED BY <2>1, RiskOperators
<1>4. Risk!BenchmarkRisk(known, cfg)[d]
        = IF d \in days THEN Risk!BenchmarkSchedule(Risk!Nav(t, cfg.valueType), cfg)[k] ELSE cfg.riskDegree
  <2> DEFINE again == Risk!Sorted([e \in DOMAIN later |-> e])
             u == [n \in DOMAIN again |-> later[again[n]]]
  <2>1. Risk!BenchmarkRisk(known, cfg)[d]
          = IF d \in DOMAIN later
            THEN Risk!BenchmarkSchedule(Risk!Nav(u, cfg.valueType), cfg)
                   [Risk!Cardinality({e \in DOMAIN later : e <= d})]
            ELSE cfg.riskDegree
    BY DEF Risk!BenchmarkRisk
  <2>2. again = listed
    BY <1>1
  <2> HIDE DEF again, later, listed, file
  <2>3. u = t
    BY <2>2
  <2> QED BY <1>1, <2>1, <2>3, RiskOperators
<1>5. d \in days => /\ DOMAIN s = 1..m /\ DOMAIN t = 1..m
                    /\ \E S : s \in Seq(S) /\ t \in Seq(S)
                    /\ \A n \in 1..(k - 1) : s[n] = t[n]
  <2> HIDE DEF listed, file, later, k, m
  <2>1. ASSUME d \in days, NEW n \in 1..(k - 1) PROVE s[n] = t[n]
    <3>1. n \in 1..m
      BY <1>2, <2>1
    <3>2. listed[n] \in days /\ listed[n] < d
      BY <1>2, <2>1
    <3> QED BY <1>1, <1>2, <2>1, <3>1, <3>2
  <2>2. ASSUME d \in days PROVE \E S : s \in Seq(S) /\ t \in Seq(S)
    <3> DEFINE S == {file[listed[n]] : n \in 1..m} \cup {later[listed[n]] : n \in 1..m}
    <3>1. /\ s = [n \in 1..m |-> file[listed[n]]] /\ t = [n \in 1..m |-> later[listed[n]]]
          /\ m \in Nat
      BY <1>2, <2>2
    <3>2. s \in Seq(S) /\ t \in Seq(S)
      <4>1. \A n \in 1..m : file[listed[n]] \in S /\ later[listed[n]] \in S
        OBVIOUS
      <4> HIDE DEF S, s, t
      <4>2. s \in [1..m -> S] /\ t \in [1..m -> S]
        BY <3>1, <4>1
      <4>3. m \in Nat
        BY <3>1
      <4> QED BY <4>2, <4>3, FunctionIsSeq
    <3> HIDE DEF S, s, t
    <3> QED BY <3>2
  <2> QED BY <1>2, <2>1, <2>2
<1> HIDE DEF s, t, listed, file, later, k, m
<1>6. d \in days => Risk!BenchmarkSchedule(Risk!Nav(s, cfg.valueType), cfg)[k]
                      = Risk!BenchmarkSchedule(Risk!Nav(t, cfg.valueType), cfg)[k]
  <2> SUFFICES ASSUME d \in days
               PROVE  Risk!BenchmarkSchedule(Risk!Nav(s, cfg.valueType), cfg)[k]
                        = Risk!BenchmarkSchedule(Risk!Nav(t, cfg.valueType), cfg)[k]
    OBVIOUS
  <2>1. \A n \in 1..m : n \in DOMAIN Risk!Nav(s, cfg.valueType) /\ n \in DOMAIN Risk!Nav(t, cfg.valueType)
    BY <1>5 DEF Risk!Nav
  <2>2. CASE k = 1
    BY <1>2, <2>1, <2>2 DEF Risk!BenchmarkSchedule
  <2>3. CASE k # 1
    <3>1. k - 1 \in 1..m /\ k \in 1..m
      BY <1>2, <2>3
    <3>2. Risk!Regime(Risk!Nav(s, cfg.valueType), k - 1, cfg)
            = Risk!Regime(Risk!Nav(t, cfg.valueType), k - 1, cfg)
      <4>1. /\ m \in Nat /\ DOMAIN s = 1..m /\ DOMAIN t = 1..m
            /\ \E S : s \in Seq(S) /\ t \in Seq(S)
            /\ k - 1 \in 1..m /\ \A n \in 1..(k - 1) : s[n] = t[n]
        BY <1>2, <1>5, <3>1
      <4> QED BY <4>1, RegimeLooksBack
    <3> QED BY <2>1, <2>3, <3>1, <3>2 DEF Risk!BenchmarkSchedule
  <2> QED BY <2>2, <2>3
<1> QED BY <1>3, <1>4, <1>6

(***************************************************************************)
(* The degree of risk of a day is a function of the scores of the days up  *)
(* to it and of the benchmark before it (build_risk_schedule_values).      *)
(***************************************************************************)
THEOREM ScheduleLooksBack ==
  ASSUME NEW input, RiskInputOk(input), NEW d \in DOMAIN input.scores,
         NEW cfg, cfg.fast \in Int, cfg.slow \in Int,
         cfg.mode \in {"signal_strength", "benchmark_ma", "benchmark_ma_signal_strength"}
  PROVE  Risk!Schedule(KnownBy(input, d), cfg)[d] = Risk!Schedule(input, cfg)[d]
<1> DEFINE known == KnownBy(input, d)
<1>1. /\ known.scores = SubSeq(input.scores, 1, d) /\ known.records = input.records
      /\ known.benchmark = Masked(input.benchmark, d)
  BY DEF KnownBy, RiskInputOk, Masked
<1>2. PICK rows : input.scores \in Seq(rows)
  BY DEF RiskInputOk
<1>3. d \in Nat \ {0} /\ d \in 0..Len(input.scores)
  BY <1>2
<1>4. d \in DOMAIN known.scores
  BY <1>1, <1>2, <1>3, SubSeqMembers
<1> HIDE DEF known
<1> DEFINE After(c) == Risk!OneSignal(input, c)
           Early(c) == Risk!OneSignal(known, c)
<1>5. ASSUME NEW c
      PROVE  Early(c)[d] = After(c)[d] /\ d \in DOMAIN Early(c) /\ d \in DOMAIN After(c)
  <2> DEFINE series == Risk!SignalSeries(input, c)
             before == Risk!SignalSeries(known, c)
  <2>1. /\ d \in DOMAIN Risk!SignalSeries(known, c) /\ d \in DOMAIN Risk!SignalSeries(input, c)
        /\ \A e \in 1..d : Risk!SignalSeries(known, c)[e] = Risk!SignalSeries(input, c)[e]
    BY <1>1, <1>2, SignalsLookBack
  <2> HIDE DEF before, series
  <2>2. d \in DOMAIN before /\ d \in DOMAIN series /\ \A e \in 1..d : before[e] = series[e]
    BY <2>1 DEF before, series
  <2>3. Risk!SignalSchedule(before, c)[d] = Risk!SignalSchedule(series, c)[d]
    BY <1>3, <2>2, SignalScheduleLooksBack
  <2>4. Early(c) = Risk!SignalSchedule(before, c) /\ After(c) = Risk!SignalSchedule(series, c)
    BY DEF Risk!OneSignal, before, series
  <2> HIDE DEF Early, After
  <2> QED BY <2>2, <2>3, <2>4 DEF Risk!SignalSchedule
<1>6. Risk!BenchmarkRisk(known, cfg)[d] = Risk!BenchmarkRisk(input, cfg)[d]
  <2>1. input.benchmark \in Seq(BenchmarkRows)
    BY DEF RiskInputOk
  <2>2. d \in Int /\ d \in DOMAIN input.scores
    BY <1>3
  <2> QED BY <1>1, <1>4, <2>1, <2>2, BenchmarkLooksBack, Zenon
<1>7. \A a, b, a2, b2 :
        /\ a[d] = a2[d] /\ d \in DOMAIN a /\ d \in DOMAIN a2 /\ b[d] = b2[d]
        => Risk!Lesser(a, b)[d] = Risk!Lesser(a2, b2)[d]
  BY DEF Risk!Lesser
<1>8. \A a, b : DOMAIN Risk!Lesser(a, b) = DOMAIN a
  BY DEF Risk!Lesser
<1> DEFINE signal == Risk!SignalRisks(input, cfg)
           early == Risk!SignalRisks(known, cfg)
           bench == Risk!BenchmarkRisk(input, cfg)
           past == Risk!BenchmarkRisk(known, cfg)
<1>9. /\ signal = IF Risk!TwoMetrics(cfg) THEN Risk!Lesser(After(cfg), After(Risk!Secondary(cfg)))
                 ELSE After(cfg)
      /\ early = IF Risk!TwoMetrics(cfg) THEN Risk!Lesser(Early(cfg), Early(Risk!Secondary(cfg)))
                ELSE Early(cfg)
  BY DEF Risk!SignalRisks
<1>10. /\ Risk!Schedule(input, cfg) = CASE cfg.mode = "signal_strength" -> signal
                                        [] cfg.mode = "benchmark_ma" -> bench
                                        [] cfg.mode = "benchmark_ma_signal_strength"
                                             -> Risk!Lesser(signal, bench)
       /\ Risk!Schedule(known, cfg) = CASE cfg.mode = "signal_strength" -> early
                                        [] cfg.mode = "benchmark_ma" -> past
                                        [] cfg.mode = "benchmark_ma_signal_strength"
                                             -> Risk!Lesser(early, past)
  BY DEF Risk!Schedule
<1> HIDE DEF After, Early, signal, early, bench, past
<1>11. early[d] = signal[d] /\ d \in DOMAIN early /\ d \in DOMAIN signal
  BY <1>5, <1>7, <1>8, <1>9
<1>12. past[d] = bench[d]
  BY <1>6 DEF past, bench
<1>13. Risk!Lesser(early, past)[d] = Risk!Lesser(signal, bench)[d]
  BY <1>7, <1>11, <1>12
<1>14. Risk!Schedule(known, cfg)[d] = Risk!Schedule(input, cfg)[d]
  BY <1>10, <1>11, <1>12, <1>13
<1> QED BY <1>14 DEF known

\* What a parsed configuration holds, whether or not its bounds agree.
RiskConfigTyped(cfg) ==
  /\ cfg.transform \in {"none", "rank_pct", "zscore_clip"}
  /\ cfg.curve \in {"linear", "convex", "concave", "sigmoid"}
  /\ cfg.mode \in {"signal_strength", "benchmark_ma", "benchmark_ma_signal_strength"}
  /\ cfg.clip \in Int /\ cfg.minScore \in Int \cup {None} /\ cfg.topk \in Int
  /\ cfg.minSignal \in Int /\ cfg.maxSignal \in Int
  /\ {cfg.minQuantile, cfg.maxQuantile} \subseteq (0..4) \cup {None}
  /\ cfg.minRisk \in Int /\ cfg.maxRisk \in Int /\ cfg.fast \in Int /\ cfg.slow \in Int
  /\ cfg.validation \in Metrics /\ cfg.secondary \in Metrics \cup {None}
  /\ cfg.bounds.minSignal \in Int /\ cfg.bounds.maxSignal \in Int
  /\ {cfg.bounds.minQuantile, cfg.bounds.maxQuantile} \subseteq (0..4) \cup {None}
  /\ cfg.bounds.minRisk \in Int /\ cfg.bounds.maxRisk \in Int
  /\ DOMAIN cfg = DOMAIN RiskBase

\* The numbers of a row or a series, in order.
LEMMA SortedNumbers ==
  ASSUME NEW m \in Nat, NEW values, Values(values), DOMAIN values = 1..m
  PROVE  Risk!Sorted(values) \in Seq(Int)
<1> DEFINE known == Risk!FiniteAt(values)
           c == Cardinality(known)
<1>1. IsFiniteSet(DOMAIN values) /\ DOMAIN values \subseteq Int
  BY FS_Interval
<1>2. /\ c \in Nat /\ \A i \in known : values[i] \in Int
      /\ DOMAIN Risk!Sorted(values) = 1..c
      /\ \A n \in 1..c : \E i \in known : Risk!Sorted(values)[n] = values[i]
  BY <1>1, SortedAt
<1>3. Risk!Sorted(values) = [n \in 1..c |-> Risk!Sorted(values)[n]]
  BY <1>2 DEF Risk!Sorted, Risk!Cardinality, Cardinality
<1> DEFINE s == Risk!Sorted(values)
<1> HIDE DEF s, c
<1>4. s = [n \in 1..c |-> s[n]] /\ (\A n \in 1..c : s[n] \in Int) /\ c \in Nat
  BY <1>2, <1>3 DEF s
<1> QED BY <1>4 DEF s

\* The transforms keep a row's days and turn numbers into numbers.
LEMMA TransformedValues ==
  ASSUME NEW cfg, RiskConfigTyped(cfg), NEW m \in Nat, NEW values, Values(values), DOMAIN values = 1..m
  PROVE  /\ DOMAIN Risk!Transformed(values, cfg) = 1..m
         /\ Values(Risk!Transformed(values, cfg))
<1> DEFINE known == Risk!FiniteAt(values)
<1>1. /\ known \subseteq 1..m /\ IsFiniteSet(known) /\ IsFiniteSet(1..m)
      /\ \A i \in known : values[i] \in Int
      /\ \A i \in 1..m : values[i] # NaN => i \in known
  <2>1. IsFiniteSet(1..m)
    BY FS_Interval
  <2> QED BY <2>1, FS_Subset DEF Risk!FiniteAt, Values
<1>2. CASE cfg.transform = "none"
  BY <1>2 DEF Risk!Transformed
<1>3. CASE cfg.transform = "rank_pct"
  <2> DEFINE r == Risk!RankPct(values)
             Under(i) == {j \in known : values[j] < values[i]}
             NotAbove(i) == {j \in known : values[j] <= values[i]}
             Share(i) == ((Cardinality(Under(i)) + 1 + Cardinality(NotAbove(i))) * RiskUnit)
                           \div (2 * Cardinality(known))
  <2>1. r = [i \in DOMAIN values |-> IF values[i] = NaN THEN NaN ELSE Share(i)]
    BY DEF Risk!RankPct, Risk!Cardinality, Cardinality
  <2>2. ASSUME NEW i \in 1..m, values[i] # NaN PROVE Share(i) \in Int
    <3>1. /\ Cardinality(Under(i)) \in Nat /\ Cardinality(NotAbove(i)) \in Nat
          /\ Cardinality(known) \in Nat /\ Cardinality(known) # 0
      BY <1>1, <2>2, FS_Subset, FS_CardinalityType, FS_EmptySet
    <3> DEFINE a == Cardinality(Under(i))
               b == Cardinality(NotAbove(i))
               c == Cardinality(known)
    <3>2. a \in Nat /\ b \in Nat /\ c \in Nat \ {0} /\ RiskUnit \in Nat
      BY <3>1, InputAssumption
    <3> HIDE DEF a, b, c
    <3>3. (a + 1 + b) * RiskUnit \in Int /\ 2 * c \in Nat \ {0}
      BY <3>2
    <3> QED BY <3>3, Quotient DEF a, b, c
  <2> HIDE DEF Share, r
  <2>3. DOMAIN r = 1..m /\ Values(r)
    BY <2>1, <2>2 DEF Values
  <2> QED BY <1>3, <2>3 DEF Risk!Transformed, r
<1>4. CASE cfg.transform = "zscore_clip"
  <2> DEFINE r == Risk!ZscoreClip(values, cfg.clip)
             n == Cardinality(known)
             sum == SumFunctionOnSet(values, known)
             Centred(i) == n * values[i] - sum
             Clipped(i) == IF cfg.clip > 0 THEN Risk!Clamp(Centred(i), -cfg.clip, cfg.clip) ELSE Centred(i)
  <2>1. r = [i \in DOMAIN values |-> IF values[i] = NaN THEN NaN ELSE Clipped(i)]
    BY RiskOperators DEF Risk!ZscoreClip
  <2>2. n \in Nat /\ sum \in Int /\ cfg.clip \in Int
    <3> HIDE DEF known
    <3> QED BY <1>1, FS_CardinalityType, SumInt DEF RiskConfigTyped
  <2>3. ASSUME NEW i \in 1..m, values[i] # NaN PROVE Clipped(i) \in Int
    BY <2>2, <2>3 DEF Values, Risk!Clamp, Risk!Least, Risk!Most
  <2> HIDE DEF Clipped, r
  <2> QED BY <1>4, <2>1, <2>3 DEF Risk!Transformed, r, Values
<1> QED BY <1>2, <1>3, <1>4 DEF RiskConfigTyped

\* The strength of a day's scores is a number, or there is none.
LEMMA StrengthValue ==
  ASSUME NEW cfg, RiskConfigTyped(cfg), NEW m \in Nat, NEW values, Values(values), DOMAIN values = 1..m
  PROVE  Risk!SignalStrength(values, cfg) \in Int \cup {NaN}
<1> DEFINE above == [i \in DOMAIN values |->
                       IF values[i] # NaN /\ (cfg.minScore = None \/ values[i] > cfg.minScore)
                       THEN values[i] ELSE NaN]
           least == Risk!Sorted(above)
           best == Risk!Counting(values, cfg)
           k == Risk!Least(Risk!Most(1, cfg.topk), Len(best))
           kept == SubSeq(best, 1, k)
<1>1. Values(above) /\ DOMAIN above = 1..m
  BY DEF Values
<1>2. least \in Seq(Int)
  <2> HIDE DEF above
  <2> QED BY <1>1, SortedNumbers
<1>3. best = [n \in DOMAIN least |-> least[Len(least) + 1 - n]]
  BY DEF Risk!Counting
<1> HIDE DEF above, least, best
<1>4. best \in Seq(Int) /\ Len(best) \in Nat
  <2>1. \A n \in 1..Len(least) : Len(least) + 1 - n \in 1..Len(least)
    BY <1>2
  <2>2. best = [n \in 1..Len(least) |-> least[Len(least) + 1 - n]]
    BY <1>2, <1>3
  <2>3. best \in [1..Len(least) -> Int]
    BY <1>2, <2>1, <2>2
  <2>4. Len(least) \in Nat
    BY <1>2
  <2> QED BY <2>3, <2>4
<1>5. k \in 0..Len(best) /\ (best # <<>> => k \in Nat \ {0})
  BY <1>4 DEF RiskConfigTyped, Risk!Least, Risk!Most
<1> HIDE DEF k
<1>6. Risk!Total(kept) \in Int
  <2>1. kept \in Seq(Int) /\ DOMAIN kept = 1..k
    BY <1>4, <1>5, SubSeqMembers
  <2>2. IsFiniteSet(1..k)
    BY <1>4, <1>5, FS_Interval
  <2> HIDE DEF kept
  <2>3. SumFunctionOnSet(kept, DOMAIN kept) \in Int
    BY <2>1, <2>2, SumInt
  <2> QED BY <2>3, RiskOperators
<1> HIDE DEF kept
<1> DEFINE total == Risk!Total(kept)
           mean == total \div k
<1>7. Risk!SignalStrength(values, cfg)
        = IF cfg.metric = "topk_sum" THEN total
          ELSE IF best = <<>> THEN NaN
          ELSE IF cfg.metric = "top1" THEN best[1]
          ELSE mean
  BY DEF Risk!SignalStrength, best, k, kept
<1> HIDE DEF total
<1>8. /\ total \in Int
      /\ best # <<>> => best[1] \in Int /\ mean \in Int
  BY <1>4, <1>5, <1>6, Quotient DEF total
<1> HIDE DEF mean
<1> QED BY <1>7, <1>8

\* A signal is a number on a day or there is none.
LEMMA SeriesValues ==
  ASSUME NEW input, RiskInputOk(input), NEW cfg, RiskConfigTyped(cfg)
  PROVE  /\ DOMAIN Risk!SignalSeries(input, cfg) = DOMAIN input.scores
         /\ Values(Risk!SignalSeries(input, cfg))
<1> DEFINE days == DOMAIN input.scores
<1>1. CASE cfg.source = "validation_metric"
  <2> DEFINE metric == cfg.validation
             Covering(d) == {i \in DOMAIN input.records :
                               /\ input.records[i][metric] # NaN
                               /\ input.records[i].first <= d /\ d <= input.records[i].last}
             LastOf(d) == input.records[Risk!Max(Covering(d))][metric]
             series == [d \in days |-> IF Covering(d) = {} THEN NaN ELSE LastOf(d)]
  <2>1. Risk!SignalSeries(input, cfg) = series
    BY <1>1 DEF Risk!SignalSeries, Risk!ValidationSeries
  <2>2. ASSUME NEW d \in days, Covering(d) # {} PROVE LastOf(d) \in Int \cup {NaN}
    <3>1. PICK m \in Nat : DOMAIN input.records = 1..m
      BY DEF RiskInputOk
    <3>2. \A i \in DOMAIN input.records : input.records[i][metric] \in Int \cup {NaN}
      BY DEF RiskInputOk, RiskConfigTyped
    <3>3. Covering(d) \in SUBSET (1..m)
      BY <3>1
    <3> HIDE DEF Covering
    <3>4. Risk!Max(Covering(d)) \in 1..m
      BY <2>2, <3>3, MaxIndex
    <3> QED BY <3>1, <3>2, <3>4
  <2> HIDE DEF LastOf, Covering
  <2>3. DOMAIN series = days /\ Values(series)
    BY <2>2 DEF Values
  <2> QED BY <2>1, <2>3
<1>2. CASE cfg.source # "validation_metric"
  <2> DEFINE series == [d \in days |-> Risk!SignalStrength(Risk!Transformed(input.scores[d], cfg), cfg)]
  <2>1. ASSUME NEW d \in days
        PROVE  Risk!SignalStrength(Risk!Transformed(input.scores[d], cfg), cfg) \in Int \cup {NaN}
    BY TransformedValues, StrengthValue DEF RiskInputOk
  <2>2. DOMAIN series = days /\ Values(series)
    BY <2>1 DEF Values
  <2> QED BY <1>2, <2>2 DEF Risk!SignalSeries, Risk!StrengthSeries
<1> QED BY <1>1, <1>2

\* A quantile of some numbers is one of them or lies between two of them.
LEMMA QuantileNumber ==
  ASSUME NEW s \in Seq(Int), s # <<>>, NEW q \in 0..4
  PROVE  Risk!Quantile(s, q) \in Int
<1> DEFINE at == q * (Len(s) - 1)
           lower == at \div 4 + 1
           upper == (at + 3) \div 4 + 1
<1>1. Len(s) \in Nat \ {0}
  BY EmptySeq
<1>2. at \in Nat /\ at <= 4 * (Len(s) - 1)
  BY <1>1
<1> HIDE DEF at
<1>3. s[lower] \in Int /\ s[upper] \in Int /\ at % 4 \in Int
  BY <1>1, <1>2
<1> DEFINE a == s[lower]
           b == s[upper]
           w == at % 4
<1> HIDE DEF a, b, w
<1>4. a \in Int /\ b \in Int /\ w \in Int
  BY <1>3 DEF a, b, w
<1>5. ((b - a) * w) \div 4 \in Int
  BY <1>4, Quotient
<1>6. a + (((b - a) * w) \div 4) \in Int
  BY <1>4, <1>5
<1> QED BY <1>6 DEF a, b, w, Risk!Quantile, at

\* So the thresholds of a day are numbers.
LEMMA ThresholdNumber ==
  ASSUME NEW S, NEW series \in Seq(S), Values(series), NEW d \in DOMAIN series,
         NEW q \in (0..4) \cup {None}, NEW fixed \in Int
  PROVE  Risk!Threshold(Risk!History(series, d), q, fixed) \in Int
<1> DEFINE before == SubSeq(series, 1, d - 1)
           s == Risk!History(series, d)
<1>1. d - 1 \in 0..Len(series) /\ d - 1 \in Nat
  OBVIOUS
<1>2. DOMAIN before = 1..(d - 1) /\ \A i \in 1..(d - 1) : before[i] = series[i]
  BY <1>1, SubSeqMembers
<1>3. Values(before)
  BY <1>2 DEF Values
<1>4. s \in Seq(Int)
  BY <1>1, <1>2, <1>3, SortedNumbers DEF Risk!History, before
<1> HIDE DEF s
<1>5. CASE q = None \/ s = <<>>
  BY <1>5 DEF Risk!Threshold, s
<1>6. CASE q # None /\ s # <<>>
  BY <1>4, <1>6, QuantileNumber DEF Risk!Threshold, s
<1> QED BY <1>5, <1>6

\* A curve keeps the share of the span within it.
LEMMA CurveInRange ==
  ASSUME NEW scale \in 0..RiskUnit, NEW curve \in {"linear", "convex", "concave", "sigmoid"}
  PROVE  Risk!RiskCurve(scale, curve) \in 0..RiskUnit
<1> DEFINE U == RiskUnit
           Square(x) == (x * x) \div U
<1>1. U \in Nat \ {0}
  BY InputAssumption
<1> HIDE DEF U
<1>2. ASSUME NEW x \in 0..U PROVE Square(x) \in 0..U
  <2>1. CASE x = 0
    BY <1>1, <2>1, ProductType, Quotient
  <2>2. CASE x # 0
    BY <1>1, <2>2, CancelFactor, Quotient
  <2> QED BY <2>1, <2>2
<1>3. /\ scale \in 0..U /\ U - scale \in 0..U
      /\ Square(scale) \in 0..U /\ U - Square(U - scale) \in 0..U
  BY <1>1, <1>2 DEF U
<1> DEFINE low == Square(scale)
           high == U - Square(U - scale)
<1>4. Risk!RiskCurve(scale, curve)
        = CASE curve = "linear" -> scale
            [] curve = "convex" -> low
            [] curve = "concave" -> high
            [] curve = "sigmoid" -> IF 2 * scale < U THEN low ELSE high
  BY DEF Risk!RiskCurve, U
<1>5. scale \in 0..U /\ low \in 0..U /\ high \in 0..U
  BY <1>3
<1> HIDE DEF low, high
<1>6. Risk!RiskCurve(scale, curve) \in 0..U
  BY <1>4, <1>5
<1> QED BY <1>6 DEF U

\* Over a span that is not empty a signal gives a risk between the bounds.
LEMMA SignalRiskInRange ==
  ASSUME NEW cfg, RiskConfigTyped(cfg), cfg.minRisk <= cfg.maxRisk,
         NEW low \in Int, NEW high \in Int, low < high, NEW v \in Int \cup {NaN}
  PROVE  Risk!SignalRisk(v, low, high, cfg) \in cfg.minRisk..cfg.maxRisk
<1> DEFINE U == RiskUnit
           scaled == ((v - low) * U) \div (high - low)
           scale == IF v = NaN THEN 0 ELSE Risk!Clamp(scaled, 0, U)
           span == cfg.maxRisk - cfg.minRisk
           c == Risk!RiskCurve(scale, cfg.curve)
<1>1. U \in Nat \ {0} /\ span \in Nat /\ cfg.minRisk \in Int /\ cfg.maxRisk \in Int
  BY InputAssumption DEF RiskConfigTyped
<1>2. scale \in 0..U
  <2>1. CASE v = NaN
    BY <1>1, <2>1
  <2>2. CASE v # NaN
    BY <1>1, <2>2, ProductType, Quotient DEF Risk!Clamp, Risk!Least, Risk!Most
  <2> QED BY <2>1, <2>2
<1>3. c \in 0..U
  BY <1>2, CurveInRange DEF RiskConfigTyped
<1>4. Risk!SignalRisk(v, low, high, cfg) = cfg.minRisk + (c * span) \div U
  BY DEF Risk!SignalRisk
<1> HIDE DEF c, span, U
<1>5. (c * span) \div U \in 0..span
  <2>1. c * span \in Int /\ 0 <= c * span /\ c \in Nat
    BY <1>1, <1>3, ProductType
  <2>2. c * span <= span * U
    <3>1. CASE span = 0
      BY <1>1, <2>1, <3>1
    <3>2. CASE span # 0
      BY <1>1, <1>3, <3>2, CancelFactor
    <3> QED BY <3>1, <3>2
  <2> QED BY <1>1, <2>1, <2>2, Quotient
<1> DEFINE share == (c * span) \div U
<1> HIDE DEF share
<1>6. cfg.minRisk + share \in cfg.minRisk..cfg.maxRisk
  BY <1>1, <1>5 DEF share, span
<1> QED BY <1>4, <1>6 DEF share

\* So does the signal of every day, whatever thresholds its history gives.
LEMMA SignalScheduleInRange ==
  ASSUME NEW cfg, RiskConfigTyped(cfg), cfg.minRisk <= cfg.maxRisk, cfg.minSignal < cfg.maxSignal,
         NEW S, NEW series \in Seq(S), Values(series), NEW d \in DOMAIN series
  PROVE  Risk!SignalSchedule(series, cfg)[d] \in cfg.minRisk..cfg.maxRisk
BY ThresholdNumber, SignalRiskInRange DEF RiskConfigTyped, Values,
   Risk!SignalSchedule, Risk!SpanStands

\* The benchmark's regimes are degrees of risk.
LEMMA BenchmarkInRange ==
  ASSUME NEW cfg, {cfg.bullRisk, cfg.neutralRisk, cfg.bearRisk, cfg.riskDegree} \subseteq 0..RiskUnit,
         NEW input, input.benchmark \in Seq(BenchmarkRows), NEW d \in Int, d \in DOMAIN input.scores
  PROVE  Risk!BenchmarkRisk(input, cfg)[d] \in 0..RiskUnit
<1> DEFINE file == Risk!BenchmarkFile(input.benchmark)
           days == DOMAIN file
           listed == Risk!Sorted([e \in days |-> e])
           k == Cardinality({e \in days : e <= d})
           s == [n \in DOMAIN listed |-> file[listed[n]]]
           nav == Risk!Nav(s, cfg.valueType)
<1>1. days \in SUBSET Int /\ IsFiniteSet(days)
  BY FileLooksBack
<1>2. d \in days => DOMAIN listed = 1..Cardinality(days) /\ k \in 1..Cardinality(days)
  <2> HIDE DEF file
  <2> QED BY <1>1, ListedBefore
<1>3. DOMAIN nav = DOMAIN listed
  <2> HIDE DEF listed, file
  <2> QED BY DEF Risk!Nav
<1>4. \A j : Risk!Regime(nav, j, cfg) \in 0..RiskUnit
  <2> HIDE DEF nav
  <2> QED BY DEF Risk!Regime
<1>5. Risk!BenchmarkRisk(input, cfg)[d]
        = IF d \in days THEN Risk!BenchmarkSchedule(nav, cfg)[k] ELSE cfg.riskDegree
  BY RiskOperators DEF Risk!BenchmarkRisk
<1>6. d \in days => Risk!BenchmarkSchedule(nav, cfg)[k] \in 0..RiskUnit
  BY <1>2, <1>3, <1>4 DEF Risk!BenchmarkSchedule
<1> HIDE DEF nav, k, file, listed
<1> QED BY <1>5, <1>6

(***************************************************************************)
(* Under a configuration that the parser lets through every day has a      *)
(* degree of risk, and it is a share of the account                        *)
(* (build_risk_schedule_values).                                           *)
(***************************************************************************)
THEOREM ScheduleInRange ==
  ASSUME NEW input, RiskInputOk(input), NEW d \in DOMAIN input.scores,
         NEW cfg, RiskConfigTyped(cfg), Risk!RiskConfigOk(cfg)
  PROVE  Risk!Schedule(input, cfg)[d] \in 0..RiskUnit
<1> DEFINE After(c) == Risk!OneSignal(input, c)
           bench == Risk!BenchmarkRisk(input, cfg)
           second == Risk!Secondary(cfg)
<1>1. /\ {cfg.bullRisk, cfg.neutralRisk, cfg.bearRisk, cfg.riskDegree} \subseteq 0..RiskUnit
      /\ Risk!BoundsOk(cfg) /\ (Risk!TwoMetrics(cfg) => Risk!BoundsOk(second)) /\ RiskUnit \in Nat
  BY InputAssumption DEF Risk!RiskConfigOk
<1>2. PICK rows : input.scores \in Seq(rows)
  BY DEF RiskInputOk
<1>3. d \in Int /\ DOMAIN input.scores = 1..Len(input.scores) /\ Len(input.scores) \in Nat
  BY <1>2
<1>4. ASSUME NEW c, RiskConfigTyped(c), Risk!BoundsOk(c)
      PROVE  d \in DOMAIN After(c) /\ After(c)[d] \in 0..RiskUnit
  <2> DEFINE series == Risk!SignalSeries(input, c)
  <2>1. /\ c.minRisk \in Int /\ c.maxRisk \in Int /\ c.minSignal < c.maxSignal
        /\ 0 <= c.minRisk /\ c.minRisk <= c.maxRisk /\ c.maxRisk <= RiskUnit
    BY <1>4 DEF RiskConfigTyped, Risk!BoundsOk
  <2>2. DOMAIN series = DOMAIN input.scores /\ Values(series)
    BY <1>4, SeriesValues
  <2>3. series = [e \in DOMAIN input.scores |-> series[e]]
    <3>1. CASE c.source = "validation_metric"
      BY <3>1 DEF Risk!SignalSeries, Risk!ValidationSeries
    <3>2. CASE c.source # "validation_metric"
      BY <3>2 DEF Risk!SignalSeries, Risk!StrengthSeries
    <3> QED BY <3>1, <3>2
  <2>4. After(c) = Risk!SignalSchedule(series, c)
    BY DEF Risk!OneSignal
  <2> HIDE DEF series, After
  <2>5. series \in Seq(Int \cup {NaN})
    BY <1>3, <2>2, <2>3 DEF Values
  <2>6. Risk!SignalSchedule(series, c)[d] \in c.minRisk..c.maxRisk
    BY <1>4, <2>1, <2>2, <2>5, SignalScheduleInRange
  <2>7. d \in DOMAIN After(c)
    BY <2>2, <2>4 DEF Risk!SignalSchedule
  <2> QED BY <1>1, <2>1, <2>4, <2>6, <2>7
<1>5. bench[d] \in 0..RiskUnit
  BY <1>1, <1>3, BenchmarkInRange DEF RiskInputOk
<1>6. \A a, b : d \in DOMAIN a /\ a[d] \in 0..RiskUnit /\ b[d] \in 0..RiskUnit
        => d \in DOMAIN Risk!Lesser(a, b) /\ Risk!Lesser(a, b)[d] \in 0..RiskUnit
  BY <1>1, SentinelAssumption DEF Risk!Lesser, Risk!Least
<1>7. Risk!TwoMetrics(cfg) => RiskConfigTyped(second)
  BY DEF RiskConfigTyped, Risk!TwoMetrics, Risk!Secondary, RiskBase
<1> DEFINE signal == Risk!SignalRisks(input, cfg)
<1>8. signal = IF Risk!TwoMetrics(cfg) THEN Risk!Lesser(After(cfg), After(second)) ELSE After(cfg)
  BY DEF Risk!SignalRisks
<1>9. Risk!Schedule(input, cfg) = CASE cfg.mode = "signal_strength" -> signal
                                    [] cfg.mode = "benchmark_ma" -> bench
                                    [] cfg.mode = "benchmark_ma_signal_strength"
                                         -> Risk!Lesser(signal, bench)
  BY DEF Risk!Schedule
<1> HIDE DEF After, second, signal, bench
<1>10. d \in DOMAIN signal /\ signal[d] \in 0..RiskUnit
  BY <1>1, <1>4, <1>6, <1>7, <1>8
<1>11. Risk!Lesser(signal, bench)[d] \in 0..RiskUnit
  BY <1>5, <1>6, <1>10
<1>12. cfg.mode \in {"signal_strength", "benchmark_ma", "benchmark_ma_signal_strength"}
  BY DEF RiskConfigTyped
<1> QED BY <1>5, <1>9, <1>10, <1>11, <1>12

\* The configurations the module draws are of the parser's types.
LEMMA DrawnConfigTyped == \A cfg \in SignalConfigs \cup BenchmarkConfigs : RiskConfigTyped(cfg)
<1> DEFINE Known(cfg) ==
             /\ cfg.transform \in {"none", "rank_pct", "zscore_clip"}
             /\ cfg.curve \in {"linear", "convex", "concave", "sigmoid"}
             /\ cfg.mode \in {"signal_strength", "benchmark_ma", "benchmark_ma_signal_strength"}
             /\ cfg.clip \in {0, 2} /\ cfg.minScore \in {None, 0} /\ cfg.topk \in {1, 2}
             /\ cfg.minSignal = 1 /\ cfg.maxSignal = 3
             /\ cfg.minQuantile \in {None, 0, 1} /\ cfg.maxQuantile \in {None, 3, 4}
             /\ cfg.minRisk = RiskUnit \div 4 /\ cfg.maxRisk = RiskUnit
             /\ cfg.fast \in {1, 2} /\ cfg.slow \in {2, 3}
             /\ cfg.validation = "label_mean" /\ cfg.secondary \in {None, "positive_rate"}
             /\ cfg.bounds = SecondBounds /\ DOMAIN cfg = DOMAIN RiskBase
<1>1. \A cfg \in SignalConfigs : Known(cfg)
  <2> DEFINE
        Tuned(low, high, curve, metric) ==
          [RiskBase EXCEPT !.minQuantile = low, !.maxQuantile = high, !.curve = curve,
                           !.metric = metric, !.topk = 2]
        Changed(transform) ==
          [RiskBase EXCEPT !.transform = transform, !.minQuantile = 0, !.maxQuantile = 4,
                           !.clip = 2, !.minScore = 0, !.metric = "topk_mean"]
        Validated(second) ==
          [RiskBase EXCEPT !.source = "validation_metric", !.minQuantile = 0,
                           !.maxQuantile = 4, !.curve = "concave", !.secondary = second]
  <2>1. \A low \in {None, 1}, high \in {None, 3}, curve \in {"convex", "sigmoid"},
           metric \in {"topk_sum", "top1"} : Known(Tuned(low, high, curve, metric))
    BY DEF RiskBase
  <2>2. \A transform \in {"rank_pct", "zscore_clip"} : Known(Changed(transform))
    BY DEF RiskBase
  <2>3. \A second \in {None, "positive_rate"} : Known(Validated(second))
    BY DEF RiskBase
  <2>4. SignalConfigs =
          {Tuned(low, high, curve, metric) :
             low \in {None, 1}, high \in {None, 3}, curve \in {"convex", "sigmoid"},
             metric \in {"topk_sum", "top1"}}
          \cup {Changed(transform) : transform \in {"rank_pct", "zscore_clip"}}
          \cup {Validated(second) : second \in {None, "positive_rate"}}
    BY DEF SignalConfigs
  <2> HIDE DEF Tuned, Changed, Validated, Known
  <2> QED BY <2>1, <2>2, <2>3, <2>4
<1>2. \A cfg \in BenchmarkConfigs : Known(cfg)
  <2> SUFFICES ASSUME NEW cfg \in BenchmarkConfigs PROVE Known(cfg)
    OBVIOUS
  <2>1. PICK mode \in {"benchmark_ma", "benchmark_ma_signal_strength"}, kind \in {"close", "return"} :
          cfg = [RiskBase EXCEPT !.mode = mode, !.valueType = kind, !.slow = 3, !.fast = 2]
    BY DEF BenchmarkConfigs
  <2> QED BY <2>1 DEF RiskBase
<1>3. \A cfg : Known(cfg) => RiskConfigTyped(cfg)
  BY InputAssumption DEF RiskConfigTyped, SecondBounds, Metrics
<1> QED BY <1>1, <1>2, <1>3

\* And so are the rows of scores, the benchmark and the records.
LEMMA DrawnRiskOk ==
  RiskCase => RiskInputOk(case.input) /\ RiskConfigTyped(case.cfg)
<1> SUFFICES ASSUME RiskCase PROVE RiskInputOk(case.input) /\ RiskConfigTyped(case.cfg)
  OBVIOUS
<1> DEFINE Signal(a, b, c, cfg, late) ==
             [cfg |-> cfg,
              input |-> [scores |-> <<a, b, c>>, benchmark |-> NoBenchmark,
                         records |-> <<[label_mean |-> 1, positive_rate |-> 2, first |-> 1, last |-> 2],
                                       [label_mean |-> 2, positive_rate |-> 1, first |-> late, last |-> 3]>>]]
           Bench(values, last, cfg) ==
             [cfg |-> cfg,
              input |-> [scores |-> [d \in 1..4 |-> <<d % 3, 3>>],
                         benchmark |-> Append(Rows(values), [day |-> last, value |-> 2]),
                         records |-> <<>>]]
<1>1. ASSUME NEW a \in [1..2 -> {1, 3, NaN}], NEW b \in [1..2 -> {1, 3, NaN}],
             NEW c \in [1..2 -> {1, 3, NaN}], NEW cfg \in SignalConfigs, NEW late \in {2, 3},
             case = Signal(a, b, c, cfg, late)
      PROVE  RiskInputOk(case.input) /\ RiskConfigTyped(case.cfg)
  <2> DEFINE rows == [1..2 -> {1, 3, NaN}]
             scores == <<a, b, c>>
             records == <<[label_mean |-> 1, positive_rate |-> 2, first |-> 1, last |-> 2],
                          [label_mean |-> 2, positive_rate |-> 1, first |-> late, last |-> 3]>>
             input == case.input
  <2>1. /\ input = [scores |-> scores, benchmark |-> NoBenchmark, records |-> records]
        /\ case.cfg = cfg
    BY <1>1
  <2>2. scores \in Seq(rows)
    OBVIOUS
  <2>3. \A row \in rows : Values(row) /\ DOMAIN row = 1..2
    BY DEF Values
  <2>4. \A d \in DOMAIN scores : Values(scores[d]) /\ \E n \in Nat : DOMAIN scores[d] = 1..n
    <3> SUFFICES ASSUME NEW d \in DOMAIN scores
                 PROVE  Values(scores[d]) /\ \E n \in Nat : DOMAIN scores[d] = 1..n
      OBVIOUS
    <3> HIDE DEF scores, rows
    <3>1. scores[d] \in rows
      BY <2>2
    <3>2. Values(scores[d]) /\ DOMAIN scores[d] = 1..2
      BY <2>3, <3>1
    <3> QED BY <3>2
  <2>5. NoBenchmark \in Seq(BenchmarkRows)
    BY DEF NoBenchmark
  <2>6. /\ DOMAIN records = 1..2
        /\ \A n \in DOMAIN records, m \in Metrics : records[n][m] \in Int \cup {NaN}
    BY DEF Metrics
  <2> HIDE DEF scores, records, input, rows
  <2>7. RiskInputOk(input)
    BY <2>1, <2>2, <2>4, <2>5, <2>6 DEF RiskInputOk
  <2> QED BY <2>1, <2>7, DrawnConfigTyped DEF input
<1>2. ASSUME NEW values \in [1..4 -> {1, 2, 3, NaN}], NEW last \in {1, 4}, NEW cfg \in BenchmarkConfigs,
             case = Bench(values, last, cfg)
      PROVE  RiskInputOk(case.input) /\ RiskConfigTyped(case.cfg)
  <2> DEFINE scores == [d \in 1..4 |-> <<d % 3, 3>>]
             end == [day |-> last, value |-> 2]
             benchmark == Append(Rows(values), end)
             input == case.input
  <2>1. /\ input = [scores |-> scores, benchmark |-> benchmark, records |-> <<>>]
        /\ case.cfg = cfg
    BY <1>2
  <2>2. ASSUME NEW d \in 1..4 PROVE Values(scores[d]) /\ DOMAIN scores[d] = 1..2
    BY DEF Values
  <2>3. DOMAIN scores = 1..4 /\ scores \in Seq({scores[d] : d \in 1..4})
    OBVIOUS
  <2>4. benchmark \in Seq(BenchmarkRows)
    <3>1. Rows(values) \in [1..4 -> BenchmarkRows]
      BY DEF Rows, BenchmarkRows
    <3> DEFINE listed == Rows(values)
    <3> HIDE DEF listed
    <3>2. listed \in Seq(BenchmarkRows)
      BY <3>1, FunctionIsSeq DEF listed
    <3>3. Append(listed, end) \in Seq(BenchmarkRows)
      BY <3>2, AppendProperties DEF BenchmarkRows
    <3> QED BY <3>3 DEF listed, end
  <2> HIDE DEF scores, benchmark, input
  <2>5. RiskInputOk(input)
    <3>1. input.scores = scores /\ input.benchmark = benchmark /\ input.records = <<>>
      BY <2>1
    <3>2. \E rows : scores \in Seq(rows)
      BY <2>3
    <3>3. \A d \in DOMAIN scores : Values(scores[d]) /\ \E n \in Nat : DOMAIN scores[d] = 1..n
      BY <2>2, <2>3
    <3>4. \E n \in Nat : DOMAIN input.records = 1..n
      BY <3>1
    <3>5. \A n \in DOMAIN input.records, m \in Metrics : input.records[n][m] \in Int \cup {NaN}
      BY <3>1
    <3> QED BY <2>1, <2>4, <3>1, <3>2, <3>3, <3>4, <3>5 DEF RiskInputOk
  <2> QED BY <2>1, <2>5, DrawnConfigTyped DEF input
<1> QED BY <1>1, <1>2 DEF RiskCase

-----------------------------------------------------------------------------
(* Factors: which rows they read.                                          *)

\* A series of n rows that reads at most k rows back, and none ahead.
BackTo(t, k) == IF t > k THEN t - k ELSE 1
Reads(s, n, k) ==
  /\ DOMAIN s = 1..n
  /\ \A t \in 1..n : WithinRows(s[t], BackTo(t, k), t)

\* What some rows up to t hold.
LEMMA CellsOfRows ==
  ASSUME NEW n \in Nat, NEW k \in Nat, NEW m \in Nat, NEW s, Reads(s, n, k), NEW t \in 1..n,
         NEW seen \in SUBSET (1..t), \A e \in seen : e + m >= t + k,
         NEW e \in seen, s[e] # NaN
  PROVE  \A cell \in s[e] : cell[2] \in BackTo(t, m)..t
<1>1. e \in 1..n /\ e <= t /\ e \in Int /\ t \in Int /\ e + m >= t + k /\ e >= 1
  OBVIOUS
<1>2. ASSUME NEW cell \in s[e] PROVE cell[2] \in BackTo(e, k)..e
  BY <1>1 DEF Reads, WithinRows
<1>3. BackTo(e, k) \in Int /\ BackTo(t, m) \in Int /\ BackTo(t, m) <= BackTo(e, k)
  BY <1>1 DEF BackTo
<1> DEFINE low == BackTo(e, k)
           wide == BackTo(t, m)
<1> HIDE DEF low, wide
<1>4. \A i \in low..e : i \in wide..t
  BY <1>1, <1>3 DEF low, wide
<1> QED BY <1>2, <1>4 DEF low, wide

\* A wider bound holds too.
LEMMA ReadsWider ==
  ASSUME NEW n \in Nat, NEW k \in Nat, NEW m \in Nat, k <= m, NEW s, Reads(s, n, k)
  PROVE  Reads(s, n, m)
<1>1. ASSUME NEW t \in 1..n PROVE WithinRows(s[t], BackTo(t, m), t)
  <2> SUFFICES ASSUME s[t] # NaN PROVE \A cell \in s[t] : cell[2] \in BackTo(t, m)..t
    BY DEF WithinRows
  <2>1. {t} \in SUBSET (1..t) /\ (\A e \in {t} : e + m >= t + k) /\ t \in {t}
    OBVIOUS
  <2> QED BY <2>1, CellsOfRows
<1> QED BY <1>1 DEF Reads

\* A value that some others make is within the rows of those.
LEMMA OfWithin ==
  ASSUME NEW V, NEW low, NEW t, \A v \in V : WithinRows(v, low, t)
  PROVE  /\ WithinRows(Factors!Strict(V), low, t)
         /\ WithinRows(Factors!Lenient(V), low, t)
         /\ WithinRows(Factors!SkipMissing(V), low, t)
<1>1. ASSUME NEW cell \in UNION (V \ {NaN}) PROVE cell[2] \in low..t
  BY <1>1 DEF WithinRows
<1>2. WithinRows(Factors!Strict(V), low, t)
  <2>1. CASE NaN \in V
    BY <2>1 DEF WithinRows, Factors!Strict
  <2>2. CASE NaN \notin V
    BY <1>1, <2>2 DEF WithinRows, Factors!Strict
  <2> QED BY <2>1, <2>2
<1> QED BY <1>1, <1>2 DEF WithinRows, Factors!SkipMissing, Factors!Lenient

\* Arithmetic and comparisons read what their operands read.
LEMMA EachReads ==
  ASSUME NEW n, NEW k, NEW S, S # {}, \A s \in S : Reads(s, n, k)
  PROVE  Reads(Factors!Each(S), n, k) /\ Reads(Factors!Flag(S), n, k)
<1>1. Factors!Rows(S) = 1..n
  BY DEF Reads, Factors!Rows
<1>2. ASSUME NEW t \in 1..n
      PROVE  /\ WithinRows(Factors!Strict({s[t] : s \in S}), BackTo(t, k), t)
             /\ WithinRows(Factors!Lenient({s[t] : s \in S}), BackTo(t, k), t)
  BY OfWithin DEF Reads
<1>3. Reads(Factors!Flag(S), n, k)
  BY <1>1, <1>2 DEF Reads, Factors!Flag
<1> QED BY <1>1, <1>2, <1>3 DEF Reads, Factors!Each

\* A value left out reads nothing.
LEMMA LeftOutReads ==
  ASSUME NEW n, NEW k, NEW s, Reads(s, n, k), NEW zero
  PROVE  Reads(Factors!NonZero(s, zero), n, k) /\ Reads(Factors!NotAllZero(s, zero), n, k)
BY DEF Reads, WithinRows, Factors!NonZero, Factors!NotAllZero

\* Rows before.
LEMMA ShiftReads ==
  ASSUME NEW n \in Nat, NEW k \in Nat, NEW w \in Nat, NEW s, Reads(s, n, k)
  PROVE  Reads(Factors!Shift(s, w), n, k + w)
<1> DEFINE shifted == Factors!Shift(s, w)
           m == k + w
<1>1. shifted = [t \in 1..n |-> IF t <= w THEN NaN ELSE s[t - w]]
  BY DEF Reads, Factors!Shift
<1>2. ASSUME NEW t \in 1..n PROVE WithinRows(shifted[t], BackTo(t, m), t)
  <2>1. CASE t <= w
    BY <1>1, <2>1 DEF WithinRows
  <2>2. CASE t > w
    <3> DEFINE h == t - w
    <3>1. h \in 1..t /\ shifted[t] = s[h] /\ m \in Nat /\ h + m >= t + k
      BY <1>1, <2>2
    <3> HIDE DEF h, m, shifted
    <3>2. {h} \in SUBSET (1..t) /\ (\A e \in {h} : e + m >= t + k) /\ h \in {h}
      BY <3>1
    <3>3. s[h] # NaN => \A cell \in s[h] : cell[2] \in BackTo(t, m)..t
      BY <3>1, <3>2, CellsOfRows
    <3> QED BY <3>1, <3>3 DEF WithinRows
  <2> QED BY <2>1, <2>2
<1> HIDE DEF shifted, m
<1>3. Reads(shifted, n, m)
  BY <1>1, <1>2 DEF Reads
<1> QED BY <1>3 DEF shifted, m

\* The last w rows.
LEMMA RollingReads ==
  ASSUME NEW n \in Nat, NEW k \in Nat, NEW w \in Nat \ {0}, NEW m \in Nat, k + w - 1 <= m,
         NEW s, Reads(s, n, k)
  PROVE  /\ \A min : Reads(Factors!Rolling(s, w, min), n, m)
         /\ Reads(Factors!ArgExtreme(s, w), n, m)
<1>1. DOMAIN s = 1..n
  BY DEF Reads
<1> DEFINE InWindow(t) == {e \in DOMAIN s : t - w < e /\ e <= t}
           Seen(t) == {e \in DOMAIN s : t - w < e /\ e <= t /\ s[e] # NaN}
           Found1(t) == {s[e] : e \in InWindow(t)}
<1>2. ASSUME NEW t \in 1..n, NEW e \in InWindow(t), s[e] # NaN
      PROVE  \A cell \in s[e] : cell[2] \in BackTo(t, m)..t
  <2>1. InWindow(t) \in SUBSET (1..t) /\ \A i \in InWindow(t) : i + m >= t + k
    BY <1>1
  <2> HIDE DEF InWindow
  <2> QED BY <1>2, <2>1, CellsOfRows
<1>3. ASSUME NEW min PROVE Reads(Factors!Rolling(s, w, min), n, m)
  <2> DEFINE r == Factors!Rolling(s, w, min)
  <2>1. DOMAIN r = 1..n
    BY <1>1 DEF Factors!Rolling
  <2>2. ASSUME NEW t \in 1..n PROVE r[t] = NaN \/ r[t] = UNION {s[e] : e \in Seen(t)}
    BY <1>1 DEF Factors!Rolling
  <2>3. ASSUME NEW t \in 1..n, NEW cell \in UNION {s[e] : e \in Seen(t)}
        PROVE  cell[2] \in BackTo(t, m)..t
    BY <1>2, <2>3
  <2> HIDE DEF r, Seen
  <2>4. \A t \in 1..n : WithinRows(r[t], BackTo(t, m), t)
    BY <2>2, <2>3 DEF WithinRows
  <2>5. Reads(r, n, m)
    BY <2>1, <2>4 DEF Reads
  <2> QED BY <2>5 DEF r
<1>4. Reads(Factors!ArgExtreme(s, w), n, m)
  <2> DEFINE r == Factors!ArgExtreme(s, w)
  <2>1. DOMAIN r = 1..n
    BY <1>1 DEF Factors!ArgExtreme
  <2>2. ASSUME NEW t \in 1..n
        PROVE  r[t] = NaN \/ r[t] = {} \/ (NaN \notin Found1(t) /\ r[t] = UNION Found1(t))
    BY <1>1 DEF Factors!ArgExtreme
  <2>3. ASSUME NEW t \in 1..n, NaN \notin Found1(t), NEW cell \in UNION Found1(t)
        PROVE  cell[2] \in BackTo(t, m)..t
    BY <1>2, <2>3
  <2> HIDE DEF r, Found1
  <2>4. \A t \in 1..n : WithinRows(r[t], BackTo(t, m), t)
    BY <2>2, <2>3 DEF WithinRows
  <2>5. Reads(r, n, m)
    BY <2>1, <2>4 DEF Reads
  <2> QED BY <2>5 DEF r
<1> QED BY <1>3, <1>4

\* Everything up to a row.
LEMMA HistoryReads ==
  ASSUME NEW n \in Nat, NEW s, Reads(s, n, n)
  PROVE  /\ \A min : Reads(Factors!Ewm(s, min), n, n)
         /\ Reads(Factors!EventAge(s), n, n) /\ Reads(Factors!EventStreak(s), n, n)
<1>1. DOMAIN s = 1..n
  BY DEF Reads
<1>2. ASSUME NEW t \in 1..n, NEW e \in 1..t
      PROVE  WithinRows(s[e], BackTo(t, n), t)
  BY DEF BackTo, Reads, WithinRows
<1>3. ASSUME NEW min PROVE Reads(Factors!Ewm(s, min), n, n)
  <2> DEFINE r == Factors!Ewm(s, min)
             Seen(t) == {e \in DOMAIN s : e <= t /\ s[e] # NaN}
  <2>1. DOMAIN r = 1..n
    BY <1>1 DEF Factors!Ewm
  <2>2. ASSUME NEW t \in 1..n PROVE r[t] = NaN \/ r[t] = UNION {s[e] : e \in Seen(t)}
    BY <1>1 DEF Factors!Ewm
  <2>3. ASSUME NEW t \in 1..n, NEW cell \in UNION {s[e] : e \in Seen(t)}
        PROVE  cell[2] \in BackTo(t, n)..t
    BY <1>1, <1>2, <2>3 DEF WithinRows
  <2> HIDE DEF r, Seen
  <2>4. \A t \in 1..n : WithinRows(r[t], BackTo(t, n), t)
    BY <2>2, <2>3 DEF WithinRows
  <2>5. Reads(r, n, n)
    BY <2>1, <2>4 DEF Reads
  <2> QED BY <2>5 DEF r
<1>4. Reads(Factors!EventAge(s), n, n)
  <2> DEFINE r == Factors!EventAge(s)
             Events(t) == {s[e] : e \in {e \in DOMAIN s : e <= t}}
  <2>1. DOMAIN r = 1..n /\ \A t \in 1..n : r[t] = Factors!SkipMissing(Events(t))
    BY <1>1 DEF Factors!EventAge
  <2>2. ASSUME NEW t \in 1..n, NEW v \in Events(t) PROVE WithinRows(v, BackTo(t, n), t)
    BY <1>1, <1>2
  <2> HIDE DEF r, Events
  <2>3. Reads(r, n, n)
    BY <2>1, <2>2, OfWithin DEF Reads
  <2> QED BY <2>3 DEF r
<1>5. Reads(Factors!EventStreak(s), n, n)
  BY <1>4, EachReads DEF Factors!EventStreak, Factors!Filled
<1> QED BY <1>3, <1>4, <1>5

\* A series reads no further back than the first row.
LEMMA ReadsAll ==
  ASSUME NEW n \in Nat, NEW k \in Nat, NEW s, Reads(s, n, k)
  PROVE  Reads(s, n, n)
<1>1. CASE k <= n
  BY <1>1, ReadsWider
<1>2. CASE k > n
  BY <1>2 DEF BackTo, Reads
<1> QED BY <1>1, <1>2

\* The range of a day and the close before it.
LEMMA TrueRangeReads ==
  ASSUME NEW n, NEW k, NEW x, NEW close, Reads(x.high, n, k), Reads(x.low, n, k),
         Reads(close, n, k), Reads(Factors!Shift(close, 1), n, k)
  PROVE  Reads(Factors!TrueRange(x, close), n, k)
<1> DEFINE r == Factors!TrueRange(x, close)
           before == Factors!Shift(close, 1)
           V(t) == {Factors!Strict({x.high[t], x.low[t]}), Factors!Strict({x.high[t], before[t]}),
                    Factors!Strict({x.low[t], before[t]})}
<1>1. DOMAIN r = 1..n /\ \A t \in 1..n : r[t] = Factors!SkipMissing(V(t))
  BY DEF Factors!TrueRange, Reads
<1>2. ASSUME NEW t \in 1..n PROVE WithinRows(r[t], BackTo(t, k), t)
  <2>1. \A v \in {x.high[t], x.low[t], before[t]} : WithinRows(v, BackTo(t, k), t)
    BY DEF Reads
  <2>2. \A v \in V(t) : WithinRows(v, BackTo(t, k), t)
    BY <2>1, OfWithin
  <2> HIDE DEF V, r
  <2> QED BY <1>1, <2>2, OfWithin
<1> HIDE DEF r
<1> QED BY <1>1, <1>2 DEF r, Reads

\* A weighted grade reads what its components read.
LEMMA WeightedReads ==
  ASSUME NEW n, NEW k, NEW components, NEW percent,
         1 \in DOMAIN components, \A c \in DOMAIN components : Reads(components[c][2], n, k)
  PROVE  Reads(Factors!Weighted(components, percent), n, k)
BY OfWithin DEF Factors!Weighted, Reads, WithinRows

\* The columns of records.
LEMMA MergedReads ==
  ASSUME NEW n, NEW k, NEW R, \A r \in R : \A f \in DOMAIN r : Reads(r[f], n, k)
  PROVE  \A f \in DOMAIN Factors!Merged(R) : Reads(Factors!Merged(R)[f], n, k)
BY DEF Factors!Merged

-----------------------------------------------------------------------------
(* What the operations of the factors do to the rows that are read.        *)

\* Arithmetic, comparisons and values left out stay within k rows.
Combined(n, k) ==
  /\ \A a : Reads(a, n, k) => Reads(Factors!Flag({a}), n, k) /\ Reads(Factors!Filled(a), n, k)
  /\ \A a, b : Reads(a, n, k) /\ Reads(b, n, k) =>
       Reads(Factors!Each({a, b}), n, k) /\ Reads(Factors!Flag({a, b}), n, k)
  /\ \A a, b, c : Reads(a, n, k) /\ Reads(b, n, k) /\ Reads(c, n, k) =>
       Reads(Factors!Each({a, b, c}), n, k) /\ Reads(Factors!Flag({a, b, c}), n, k)
  /\ \A a, b, c, d : Reads(a, n, k) /\ Reads(b, n, k) /\ Reads(c, n, k) /\ Reads(d, n, k) =>
       Reads(Factors!Each({a, b, c, d}), n, k) /\ Reads(Factors!Flag({a, b, c, d}), n, k)
  /\ \A a, zero : Reads(a, n, k) =>
       Reads(Factors!NonZero(a, zero), n, k) /\ Reads(Factors!NotAllZero(a, zero), n, k)

\* Grades of two to five components stay within k rows.
Graded(n, k) ==
  /\ \A a, b, i, j, percent : Reads(a, n, k) /\ Reads(b, n, k) =>
       Reads(Factors!Weighted(<<<<i, a>>, <<j, b>>>>, percent), n, k)
  /\ \A a, b, c, i, j, l, percent : Reads(a, n, k) /\ Reads(b, n, k) /\ Reads(c, n, k) =>
       Reads(Factors!Weighted(<<<<i, a>>, <<j, b>>, <<l, c>>>>, percent), n, k)
  /\ \A a, b, c, d, i, j, l, m, percent :
       Reads(a, n, k) /\ Reads(b, n, k) /\ Reads(c, n, k) /\ Reads(d, n, k) =>
         Reads(Factors!Weighted(<<<<i, a>>, <<j, b>>, <<l, c>>, <<m, d>>>>, percent), n, k)
  /\ \A a, b, c, d, e, i, j, l, m, o, percent :
       Reads(a, n, k) /\ Reads(b, n, k) /\ Reads(c, n, k) /\ Reads(d, n, k) /\ Reads(e, n, k) =>
         Reads(Factors!Weighted(<<<<i, a>>, <<j, b>>, <<l, c>>, <<m, d>>, <<o, e>>>>, percent), n, k)

\* They do, for every k.
LEMMA CombinedReads ==
  ASSUME NEW n, NEW k
  PROVE  Combined(n, k)
<1>1. ASSUME NEW a, Reads(a, n, k)
      PROVE  Reads(Factors!Flag({a}), n, k) /\ Reads(Factors!Filled(a), n, k)
  BY <1>1, EachReads DEF Factors!Filled
<1>2. ASSUME NEW a, NEW b, Reads(a, n, k), Reads(b, n, k)
      PROVE  Reads(Factors!Each({a, b}), n, k) /\ Reads(Factors!Flag({a, b}), n, k)
  BY <1>2, EachReads
<1>3. ASSUME NEW a, NEW b, NEW c, Reads(a, n, k), Reads(b, n, k), Reads(c, n, k)
      PROVE  Reads(Factors!Each({a, b, c}), n, k) /\ Reads(Factors!Flag({a, b, c}), n, k)
  BY <1>3, EachReads
<1>4. ASSUME NEW a, NEW b, NEW c, NEW d,
             Reads(a, n, k), Reads(b, n, k), Reads(c, n, k), Reads(d, n, k)
      PROVE  Reads(Factors!Each({a, b, c, d}), n, k) /\ Reads(Factors!Flag({a, b, c, d}), n, k)
  BY <1>4, EachReads
<1>5. ASSUME NEW a, NEW zero, Reads(a, n, k)
      PROVE  Reads(Factors!NonZero(a, zero), n, k) /\ Reads(Factors!NotAllZero(a, zero), n, k)
  BY <1>5, LeftOutReads
<1> QED BY <1>1, <1>2, <1>3, <1>4, <1>5 DEF Combined

\* Grades do, for every k.
LEMMA GradedReads ==
  ASSUME NEW n, NEW k
  PROVE  Graded(n, k)
<1>1. ASSUME NEW a, NEW b, NEW i, NEW j, NEW percent, Reads(a, n, k), Reads(b, n, k)
      PROVE  Reads(Factors!Weighted(<<<<i, a>>, <<j, b>>>>, percent), n, k)
  BY <1>1, WeightedReads
<1>2. ASSUME NEW a, NEW b, NEW c, NEW i, NEW j, NEW l, NEW percent,
             Reads(a, n, k), Reads(b, n, k), Reads(c, n, k)
      PROVE  Reads(Factors!Weighted(<<<<i, a>>, <<j, b>>, <<l, c>>>>, percent), n, k)
  BY <1>2, WeightedReads
<1>3. ASSUME NEW a, NEW b, NEW c, NEW d, NEW i, NEW j, NEW l, NEW m, NEW percent,
             Reads(a, n, k), Reads(b, n, k), Reads(c, n, k), Reads(d, n, k)
      PROVE  Reads(Factors!Weighted(<<<<i, a>>, <<j, b>>, <<l, c>>, <<m, d>>>>, percent), n, k)
  BY <1>3, WeightedReads
<1>4. ASSUME NEW a, NEW b, NEW c, NEW d, NEW e, NEW i, NEW j, NEW l, NEW m, NEW o, NEW percent,
             Reads(a, n, k), Reads(b, n, k), Reads(c, n, k), Reads(d, n, k), Reads(e, n, k)
      PROVE  Reads(Factors!Weighted(<<<<i, a>>, <<j, b>>, <<l, c>>, <<m, d>>, <<o, e>>>>, percent), n, k)
  BY <1>4, WeightedReads
<1> QED BY <1>1, <1>2, <1>3, <1>4 DEF Graded

\* What a window of w rows does to series of the row, of the row and the one
\* before it, of the window, and of the window and the row before it.
Levels(n, w) ==
  /\ \A s : Reads(s, n, 0) => Reads(s, n, 1)
  /\ \A s : Reads(s, n, 1) => Reads(s, n, w)
  /\ \A s : Reads(s, n, w) => Reads(s, n, w + 1)
  /\ \A s : Reads(s, n, 0) =>
       /\ Reads(Factors!Shift(s, 0), n, 0) /\ Reads(Factors!Shift(s, 1), n, 1)
       /\ Reads(Factors!Shift(s, w), n, w)
       /\ Reads(Factors!Change(s, 1), n, 1) /\ Reads(Factors!Change(s, w), n, w)
  /\ \A s : Reads(s, n, w) => Reads(Factors!Shift(s, 1), n, w + 1)
  /\ \A s : Reads(s, n, 1) =>
       /\ Reads(Factors!Mean(s, w), n, w) /\ Reads(Factors!Std(s, w), n, w)
       /\ Reads(Factors!Whole(s, w), n, w) /\ Reads(Factors!ArgExtreme(s, w), n, w)
       /\ Reads(Factors!Rank(s, w), n, w) /\ Reads(Factors!Mean(s, w + 1), n, w + 1)
  /\ \A r, s : Reads(r, n, 1) /\ Reads(s, n, 1) => Reads(Factors!Corr(r, s, w), n, w)

\* It does, for windows of any size.
LEMMA LevelsHold ==
  ASSUME NEW n \in Nat, NEW w \in Nat \ {0}
  PROVE  Levels(n, w)
<1>1. /\ w \in Nat /\ w + 1 \in Nat \ {0} /\ w + 1 \in Nat /\ 0 \in Nat /\ 1 \in Nat
      /\ 0 <= 1 /\ 1 <= w /\ w <= w + 1 /\ 0 + 0 = 0 /\ 0 + 1 = 1 /\ 0 + w = w
      /\ 1 + w - 1 <= w /\ 1 + (w + 1) - 1 <= w + 1
  OBVIOUS
<1>2. Combined(n, 1) /\ Combined(n, w)
  BY CombinedReads
<1>3. ASSUME NEW s, Reads(s, n, 0) PROVE Reads(s, n, 1)
  BY <1>1, <1>3, ReadsWider
<1>4. ASSUME NEW s, Reads(s, n, 1) PROVE Reads(s, n, w)
  BY <1>1, <1>4, ReadsWider
<1>5. ASSUME NEW s, Reads(s, n, w)
      PROVE  Reads(s, n, w + 1) /\ Reads(Factors!Shift(s, 1), n, w + 1)
  BY <1>1, <1>5, ReadsWider, ShiftReads
<1>6. ASSUME NEW s, Reads(s, n, 0)
      PROVE  /\ Reads(Factors!Shift(s, 0), n, 0) /\ Reads(Factors!Shift(s, 1), n, 1)
             /\ Reads(Factors!Shift(s, w), n, w)
             /\ Reads(Factors!Change(s, 1), n, 1) /\ Reads(Factors!Change(s, w), n, w)
  <2>1. /\ Reads(Factors!Shift(s, 0), n, 0) /\ Reads(Factors!Shift(s, 1), n, 1)
        /\ Reads(Factors!Shift(s, w), n, w)
    BY <1>1, <1>6, ShiftReads
  <2>2. Reads(Factors!Change(s, 1), n, 1) /\ Reads(Factors!Change(s, w), n, w)
    BY <1>2, <1>3, <1>4, <1>6, <2>1 DEF Combined, Factors!Change
  <2> QED BY <2>1, <2>2
<1>7. ASSUME NEW s, Reads(s, n, 1)
      PROVE  /\ \A min : Reads(Factors!Rolling(s, w, min), n, w)
             /\ Reads(Factors!ArgExtreme(s, w), n, w)
             /\ Reads(Factors!Mean(s, w + 1), n, w + 1)
  BY <1>1, <1>7, RollingReads DEF Factors!Mean
<1>8. ASSUME NEW s, Reads(s, n, 1)
      PROVE  /\ Reads(Factors!Mean(s, w), n, w) /\ Reads(Factors!Std(s, w), n, w)
             /\ Reads(Factors!Whole(s, w), n, w) /\ Reads(Factors!Rank(s, w), n, w)
  <2>1. /\ Reads(Factors!Mean(s, w), n, w) /\ Reads(Factors!Std(s, w), n, w)
        /\ Reads(Factors!Whole(s, w), n, w)
    BY <1>7, <1>8 DEF Factors!Mean, Factors!Std, Factors!Whole
  <2> QED BY <1>2, <1>4, <1>8, <2>1 DEF Combined, Factors!Rank
<1>9. ASSUME NEW r, NEW s, Reads(r, n, 1), Reads(s, n, 1)
      PROVE  Reads(Factors!Corr(r, s, w), n, w)
  BY <1>2, <1>7, <1>9 DEF Combined, Factors!Corr
<1> QED BY <1>3, <1>4, <1>5, <1>6, <1>7, <1>8, <1>9 DEF Levels

-----------------------------------------------------------------------------
(* The source of a symbol.                                                 *)

\* A column holds its own row, or is missing.
ColumnOk(s, n) == /\ s = [t \in 1..n |-> s[t]]
                  /\ \A t \in 1..n : s[t] = NaN \/ (s[t] # {} /\ \A cell \in s[t] : cell[2] = t)
SourceOk(x, n) == \A c \in FactorColumns : ColumnOk(x[c], n)

\* A column reads its own row, and without its zeros too.
OwnRows(s, zero, n) == Reads(s, n, 0) /\ Reads(Factors!NonZero(s, zero), n, 0)
ColumnsRead(x, n) ==
  /\ OwnRows(x.open, x.zero, n) /\ OwnRows(x.high, x.zero, n) /\ OwnRows(x.low, x.zero, n)
  /\ OwnRows(x.close, x.zero, n)
  /\ OwnRows(x.vwap, x.zero, n) /\ OwnRows(x.volume, x.zero, n) /\ OwnRows(x.amount, x.zero, n)
  /\ OwnRows(x.turnover, x.zero, n) /\ OwnRows(x.turnover_free, x.zero, n) /\ OwnRows(x.limit, x.zero, n)
  /\ OwnRows(x.valuation, x.zero, n) /\ OwnRows(x.fi, x.zero, n) /\ OwnRows(x.fc, x.zero, n)
  /\ OwnRows(x.exp, x.zero, n) /\ OwnRows(x.div, x.zero, n) /\ OwnRows(x.age, x.zero, n)
  /\ OwnRows(x.ind, x.zero, n)

\* The columns of a source read their own row.
LEMMA SourceRead ==
  ASSUME NEW n \in Nat, NEW x, SourceOk(x, n)
  PROVE  ColumnsRead(x, n)
<1>1. ASSUME NEW c \in FactorColumns PROVE OwnRows(x[c], x.zero, n)
  <2> DEFINE s == x[c]
  <2>1. ColumnOk(s, n)
    BY DEF SourceOk
  <2> HIDE DEF s
  <2>2. Reads(s, n, 0)
    <3>1. ASSUME NEW t \in 1..n PROVE WithinRows(s[t], BackTo(t, 0), t)
      BY <2>1 DEF BackTo, ColumnOk, WithinRows
    <3> QED BY <2>1, <3>1 DEF Reads, ColumnOk
  <2> QED BY <2>2, LeftOutReads DEF s, OwnRows
<1> QED BY <1>1 DEF FactorColumns, ColumnsRead

\* Every column of a record.
RecordReads(r, n, k) == \A f \in DOMAIN r : Reads(r[f], n, k)

\* What is known of windows of w rows.
Rules(n, w) ==
  /\ Levels(n, w)
  /\ Combined(n, 0) /\ Combined(n, 1) /\ Combined(n, w) /\ Combined(n, w + 1)
  /\ Graded(n, 0) /\ Graded(n, w) /\ Graded(n, w + 1)

\* It holds of every size.
LEMMA RulesHold ==
  ASSUME NEW n \in Nat, NEW w \in Nat \ {0}
  PROVE  Rules(n, w)
BY LevelsHold, CombinedReads, GradedReads DEF Rules

\* Candle shapes read their own row.
LEMMA KbarPriceRead ==
  ASSUME NEW n \in Nat, NEW w \in Nat \ {0}, NEW x, ColumnsRead(x, n)
  PROVE  RecordReads(Factors!KbarPrice(x), n, w + 1)
<1> DEFINE r == Factors!KbarPrice(x)
<1>1. Rules(n, w) /\ ColumnsRead(x, n)
  BY RulesHold
<1>2. /\ Reads(r.KMID, n, 0) /\ Reads(r.KLEN, n, 0) /\ Reads(r.KMID2, n, 0)
      /\ Reads(r.KUP, n, 0) /\ Reads(r.KLOW, n, 0) /\ Reads(r.KUP2, n, 0)
      /\ Reads(r.KSFT2, n, 0) /\ Reads(r.OPEN0, n, 0) /\ Reads(r.VWAP0, n, 0)
  BY <1>1 DEF Rules, Combined, Levels, ColumnsRead, OwnRows, Factors!KbarPrice,
     Factors!ShiftedRatio
<1> QED BY <1>1, <1>2 DEF Rules, Levels, RecordReads, Factors!KbarPrice

\* Announced figures read their own row.
LEMMA TsReportsRead ==
  ASSUME NEW n \in Nat, NEW w \in Nat \ {0}, NEW x, ColumnsRead(x, n)
  PROVE  RecordReads(Factors!TsReports(x), n, w + 1)
<1> DEFINE r == Factors!TsReports(x)
<1>1. Rules(n, w) /\ ColumnsRead(x, n)
  BY RulesHold
<1>2. /\ Reads(r.fi_profitability_combo, n, 0) /\ Reads(r.fc_p_change_mid, n, 0)
      /\ Reads(r.fc_surprise_fresh, n, 0) /\ Reads(r.exp_growth_fresh, n, 0)
  BY <1>1 DEF Rules, Combined, ColumnsRead, OwnRows, Factors!TsReports
<1>3. RecordReads(r, n, 0)
  BY <1>2 DEF RecordReads, Factors!TsReports
<1> QED BY <1>1, <1>3 DEF Rules, Levels, RecordReads

\* The latest figures read their own row.
LEMMA TsLatestRead ==
  ASSUME NEW n \in Nat, NEW w \in Nat \ {0}, NEW x, ColumnsRead(x, n)
  PROVE  RecordReads(Factors!TsLatest(x), n, w + 1)
<1> DEFINE r == Factors!TsLatest(x)
<1>1. Rules(n, w) /\ ColumnsRead(x, n)
  BY RulesHold
<1>2. /\ Reads(r.latest_eps, n, 0) /\ Reads(r.latest_fc_net_profit, n, 0)
      /\ Reads(r.latest_exp_revenue, n, 0) /\ Reads(r.latest_div_cash_yield_proxy, n, 0)
      /\ Reads(r.has_stock_dividend, n, 0)
  BY <1>1 DEF Rules, Combined, ColumnsRead, OwnRows, Factors!TsLatest
<1>3. RecordReads(r, n, 0)
  BY <1>2 DEF RecordReads, Factors!TsLatest
<1> QED BY <1>1, <1>3 DEF Rules, Levels, RecordReads

\* Levels of a window read the window.
LEMMA AlphaLevelsRead ==
  ASSUME NEW n \in Nat, NEW w \in Nat \ {0}, NEW x, ColumnsRead(x, n)
  PROVE  RecordReads(Factors!AlphaLevels(x, w), n, w + 1)
<1> DEFINE r == Factors!AlphaLevels(x, w)
           mean == Factors!Mean(x.close, w)
           std == Factors!Std(x.close, w)
           low == Factors!Mean(x.low, w)
           high == Factors!Mean(x.high, w)
<1>1. Rules(n, w) /\ ColumnsRead(x, n)
  BY RulesHold
<1>2. /\ Reads(mean, n, w) /\ Reads(std, n, w) /\ Reads(low, n, w) /\ Reads(high, n, w)
      /\ Reads(x.close, n, w) /\ Reads(Factors!Shift(x.close, w), n, w)
      /\ Reads(Factors!Rank(x.close, w), n, w)
  BY <1>1 DEF Rules, Levels, ColumnsRead, OwnRows
<1> HIDE DEF mean, std, low, high
<1>3. /\ Reads(r.ROC, n, w) /\ Reads(r.MA, n, w) /\ Reads(r.STD, n, w) /\ Reads(r.BETA, n, w)
      /\ Reads(r.RSQR, n, w) /\ Reads(r.MAX, n, w) /\ Reads(r.MIN, n, w) /\ Reads(r.QTLU, n, w)
      /\ Reads(r.RANK, n, w) /\ Reads(r.RSV, n, w)
  BY <1>1, <1>2 DEF Rules, Combined, Factors!AlphaLevels, Factors!ShiftedRatio, mean, std, low,
     high
<1> QED BY <1>1, <1>3 DEF Rules, Levels, RecordReads, Factors!AlphaLevels

\* Positions and correlations of a window read the window.
LEMMA AlphaPositionsRead ==
  ASSUME NEW n \in Nat, NEW w \in Nat \ {0}, NEW x, ColumnsRead(x, n)
  PROVE  RecordReads(Factors!AlphaPositions(x, w), n, w + 1)
<1> DEFINE r == Factors!AlphaPositions(x, w)
           ret == Factors!Change(x.close, 1)
           turn == Factors!Change(x.volume, 1)
<1>1. Rules(n, w) /\ ColumnsRead(x, n)
  BY RulesHold
<1>2. /\ Reads(ret, n, 1) /\ Reads(turn, n, 1) /\ Reads(x.high, n, 1) /\ Reads(x.low, n, 1)
      /\ Reads(x.close, n, 1) /\ Reads(x.volume, n, 1)
  BY <1>1 DEF Rules, Levels, ColumnsRead, OwnRows
<1> HIDE DEF ret, turn
<1>3. /\ Reads(r.IMAX, n, w) /\ Reads(r.IMIN, n, w) /\ Reads(r.IMXD, n, w)
      /\ Reads(r.CORR, n, w) /\ Reads(r.CORD, n, w)
  BY <1>1, <1>2 DEF Rules, Combined, Levels, Factors!AlphaPositions, ret, turn
<1>4. RecordReads(r, n, w)
  BY <1>3 DEF RecordReads, Factors!AlphaPositions
<1> QED BY <1>1, <1>4 DEF Rules, Levels, RecordReads

\* Up and down moves of a window read the window.
LEMMA AlphaFlowsRead ==
  ASSUME NEW n \in Nat, NEW w \in Nat \ {0}, NEW x, ColumnsRead(x, n)
  PROVE  RecordReads(Factors!AlphaFlows(x, w), n, w + 1)
<1> DEFINE r == Factors!AlphaFlows(x, w)
           ret == Factors!Change(x.close, 1)
           turn == Factors!Change(x.volume, 1)
<1>1. Rules(n, w) /\ ColumnsRead(x, n)
  BY RulesHold
<1>2. /\ Reads(ret, n, 1) /\ Reads(turn, n, 1) /\ Reads(x.volume, n, 1) /\ Reads(x.close, n, 1)
      /\ Reads(Factors!Shift(x.close, 1), n, 1)
  BY <1>1 DEF Rules, Levels, ColumnsRead, OwnRows
<1> HIDE DEF ret, turn
<1>3. /\ Reads(r.CNTP, n, w) /\ Reads(r.SUMP, n, w) /\ Reads(r.VSUMP, n, w)
      /\ Reads(r.VMA, n, w) /\ Reads(r.VSTD, n, w) /\ Reads(r.WVMA, n, w)
  BY <1>1, <1>2 DEF Rules, Combined, Levels, Factors!AlphaFlows, ret, turn
<1>4. RecordReads(r, n, w)
  BY <1>3 DEF RecordReads, Factors!AlphaFlows
<1> QED BY <1>1, <1>4 DEF Rules, Levels, RecordReads

\* The purified factors read the window.
LEMMA PurifiedRead ==
  ASSUME NEW n \in Nat, NEW w \in Nat \ {0}, NEW x, ColumnsRead(x, n)
  PROVE  RecordReads(Factors!Purified(x, w), n, w + 1)
<1> DEFINE r == Factors!Purified(x, w)
           close == Factors!NonZero(x.close, x.zero)
           volume == Factors!NonZero(x.volume, x.zero)
           vwap == Factors!NonZero(x.vwap, x.zero)
           yield == Factors!NonZero(x.valuation, x.zero)
           high == Factors!NotAllZero(Factors!Mean(x.high, w), x.zero)
           low == Factors!NonZero(Factors!Mean(x.low, w), x.zero)
           range == Factors!TrueRange(x, x.close)
<1>1. Rules(n, w) /\ ColumnsRead(x, n)
  BY RulesHold
<1>2. /\ Reads(close, n, 0) /\ Reads(volume, n, 0) /\ Reads(vwap, n, 0) /\ Reads(yield, n, 0)
      /\ Reads(x.high, n, 1) /\ Reads(x.low, n, 1) /\ Reads(x.close, n, 1)
      /\ Reads(x.volume, n, 1)
      /\ Reads(x.turnover, n, 1) /\ Reads(x.amount, n, 1)
      /\ Reads(Factors!Shift(x.close, 1), n, 1)
  BY <1>1 DEF Rules, Levels, ColumnsRead, OwnRows
<1>3. /\ Reads(close, n, 1) /\ Reads(volume, n, 1) /\ Reads(range, n, 1)
      /\ Reads(Factors!Change(close, 1), n, 1) /\ Reads(Factors!Change(close, w), n, w)
      /\ Reads(Factors!Filled(yield), n, 0)
  BY <1>1, <1>2, TrueRangeReads DEF Rules, Levels, Combined
<1>4. /\ Reads(close, n, w) /\ Reads(volume, n, w) /\ Reads(vwap, n, w) /\ Reads(yield, n, w)
      /\ Reads(Factors!Filled(yield), n, w) /\ Reads(high, n, w) /\ Reads(low, n, w)
      /\ Reads(Factors!Mean(close, w), n, w) /\ Reads(Factors!Mean(volume, w), n, w)
      /\ Reads(Factors!Mean(range, w), n, w) /\ Reads(Factors!Mean(x.turnover, w), n, w)
      /\ Reads(Factors!Amihud(x, close, w), n, w)
      /\ Reads(Factors!Std(Factors!Change(close, 1), w), n, w)
      /\ Reads(Factors!Corr(close, x.volume, w), n, w)
  BY <1>1, <1>2, <1>3 DEF Rules, Levels, Combined, Factors!Amihud
<1> HIDE DEF close, volume, vwap, yield, high, low, range
<1>5. /\ Reads(r.LGBM_ret, n, w) /\ Reads(r.LGBM_dist_ma, n, w) /\ Reads(r.LGBM_std, n, w)
      /\ Reads(r.LGBM_atr, n, w) /\ Reads(r.LGBM_amihud, n, w) /\ Reads(r.LGBM_vol_ratio, n, w)
      /\ Reads(r.LGBM_corr_cv, n, w) /\ Reads(r.LGBM_vwap_ratio, n, w)
      /\ Reads(r.LGBM_ep_ttm, n, w) /\ Reads(r.LGBM_ep_ttm_clean, n, w)
      /\ Reads(r.LGBM_turnover, n, w) /\ Reads(r.LGBM_dist_high, n, w)
      /\ Reads(r.LGBM_dist_low, n, w)
  BY <1>1, <1>3, <1>4 DEF Rules, Combined, Factors!Purified, close, volume, vwap, yield, high,
     low, range
<1> QED BY <1>1, <1>5 DEF Rules, Levels, RecordReads, Factors!Purified

\* The temporal factors read the window.
LEMMA TemporalRead ==
  ASSUME NEW n \in Nat, NEW w \in Nat \ {0}, NEW x, ColumnsRead(x, n)
  PROVE  RecordReads(Factors!Temporal(x, w), n, w + 1)
<1> DEFINE r == Factors!Temporal(x, w)
           close == Factors!NonZero(x.close, x.zero)
           volume == Factors!NonZero(x.volume, x.zero)
           high == Factors!Mean(Factors!NonZero(x.high, x.zero), w)
           low == Factors!Mean(Factors!NonZero(x.low, x.zero), w)
<1>1. Rules(n, w) /\ ColumnsRead(x, n)
  BY RulesHold
<1>2. /\ Reads(close, n, 0) /\ Reads(volume, n, 0) /\ Reads(high, n, w) /\ Reads(low, n, w)
      /\ Reads(x.turnover, n, 1) /\ Reads(x.amount, n, 1)
  BY <1>1 DEF Rules, Levels, ColumnsRead, OwnRows
<1>3. /\ Reads(close, n, 1) /\ Reads(volume, n, 1)
      /\ Reads(Factors!Change(close, 1), n, 1) /\ Reads(Factors!Change(close, w), n, w)
  BY <1>1, <1>2 DEF Rules, Levels
<1>4. /\ Reads(close, n, w) /\ Reads(volume, n, w) /\ Reads(Factors!Mean(close, w), n, w)
      /\ Reads(Factors!Rank(close, w), n, w) /\ Reads(Factors!Mean(volume, w), n, w)
      /\ Reads(Factors!Mean(x.turnover, w), n, w) /\ Reads(Factors!Amihud(x, close, w), n, w)
      /\ Reads(Factors!Std(Factors!Change(close, 1), w), n, w)
      /\ Reads(Factors!Corr(close, volume, w), n, w)
  BY <1>1, <1>2 DEF Rules, Levels, Combined, Factors!Amihud
<1> HIDE DEF close, volume, high, low
<1>5. /\ Reads(r.TEMP_ret, n, w) /\ Reads(r.TEMP_ma_gap, n, w) /\ Reads(r.TEMP_std, n, w)
      /\ Reads(r.TEMP_rsv, n, w) /\ Reads(r.TEMP_price_rank, n, w)
      /\ Reads(r.TEMP_volume_ratio, n, w) /\ Reads(r.TEMP_turnover_mean, n, w)
      /\ Reads(r.TEMP_amihud, n, w) /\ Reads(r.TEMP_high_gap, n, w)
      /\ Reads(r.TEMP_low_gap, n, w) /\ Reads(r.TEMP_corr_cv, n, w)
  BY <1>1, <1>2, <1>3, <1>4 DEF Rules, Combined, Factors!Temporal, close, volume, high, low
<1> QED BY <1>1, <1>5 DEF Rules, Levels, RecordReads, Factors!Temporal

\* The technical factors of a window read the window.
LEMMA OscillatorsRead ==
  ASSUME NEW n \in Nat, NEW w \in Nat \ {0}, NEW x, ColumnsRead(x, n)
  PROVE  RecordReads(Factors!Oscillators(x, w), n, w + 1)
<1> DEFINE r == Factors!Oscillators(x, w)
           close == Factors!NonZero(x.close, x.zero)
           price == Factors!TypicalPrice(x)
           flow == Factors!Flag({Factors!Change(price, 1), price, x.volume})
           signed == Factors!Flag({Factors!Change(close, 1), x.volume})
           filled == Factors!Filled(x.volume)
<1>1. Rules(n, w) /\ ColumnsRead(x, n)
  BY RulesHold
<1>2. /\ Reads(close, n, w) /\ Reads(price, n, w) /\ Reads(flow, n, 1) /\ Reads(signed, n, 1)
      /\ Reads(Factors!Whole(close, w), n, w) /\ Reads(Factors!Whole(price, w), n, w)
      /\ Reads(Factors!Whole(x.high, w), n, w) /\ Reads(Factors!Whole(x.low, w), n, w)
      /\ Reads(Factors!Whole(filled, w), n, w)
  BY <1>1 DEF Rules, Levels, Combined, ColumnsRead, OwnRows,
     Factors!TypicalPrice
<1>3. Reads(Factors!Whole(flow, w), n, w) /\ Reads(Factors!Whole(signed, w), n, w)
  BY <1>1, <1>2 DEF Rules, Levels
<1> HIDE DEF close, price, flow, signed, filled
<1>4. /\ Reads(r.boll_pos, n, w) /\ Reads(r.boll_width, n, w) /\ Reads(r.mfi, n, w)
      /\ Reads(r.cci, n, w) /\ Reads(r.willr, n, w) /\ Reads(r.aroon_osc, n, w)
      /\ Reads(r.obv_flow, n, w)
  BY <1>1, <1>2, <1>3 DEF Rules, Combined, Factors!Oscillators, close, price, flow, signed,
     filled
<1> QED BY <1>1, <1>4 DEF Rules, Levels, RecordReads, Factors!Oscillators

\* Limits, turnover and payout read the window and the row before it.
LEMMA TsLevelsRead ==
  ASSUME NEW n \in Nat, NEW w \in Nat \ {0}, NEW x, ColumnsRead(x, n)
  PROVE  RecordReads(Factors!TsLevels(x, w), n, w + 1)
<1> DEFINE r == Factors!TsLevels(x, w)
           turnover == Factors!Each({x.turnover_free, Factors!NonZero(x.turnover, x.zero)})
           clean == Factors!NonZero(x.valuation, x.zero)
           hit == Factors!Hit(x)
           payout == Factors!Payout(x)
<1>1. Rules(n, w) /\ ColumnsRead(x, n)
  BY RulesHold
<1>2. /\ Reads(Factors!Mean(x.turnover, w), n, w + 1)
      /\ Reads(Factors!Mean(x.turnover, w + 1), n, w + 1)
      /\ Reads(turnover, n, w + 1) /\ Reads(clean, n, w + 1)
      /\ Reads(Factors!Filled(clean), n, w + 1)
      /\ Reads(hit, n, w + 1) /\ Reads(payout, n, w + 1) /\ Reads(x.limit, n, w + 1)
  BY <1>1 DEF Rules, Levels, Combined, ColumnsRead, OwnRows, Factors!Hit,
     Factors!Payout
<1> HIDE DEF turnover, clean, hit, payout
<1>3. /\ Reads(r.gap_up_limit, n, w + 1) /\ Reads(r.limit_band_pct, n, w + 1)
      /\ Reads(r.free_turnover_ratio, n, w + 1) /\ Reads(r.turnover_accel, n, w + 1)
      /\ Reads(r.ep, n, w + 1) /\ Reads(r.ep_clean, n, w + 1)
      /\ Reads(r.dividend_cash_to_eps, n, w + 1)
  BY <1>1, <1>2 DEF Rules, Combined, Factors!TsLevels, turnover, clean, hit, payout
<1> QED BY <1>3 DEF RecordReads, Factors!TsLevels

\* Changes over a window read the window.
LEMMA TsChangesRead ==
  ASSUME NEW n \in Nat, NEW w \in Nat \ {0}, NEW x, ColumnsRead(x, n)
  PROVE  RecordReads(Factors!TsChanges(x, w), n, w + 1)
<1> DEFINE r == Factors!TsChanges(x, w)
           clean == Factors!NonZero(x.valuation, x.zero)
           filled == Factors!Filled(clean)
           close == Factors!NonZero(x.close, x.zero)
           hit == Factors!Hit(x)
           returns == Factors!Returns(x)
<1>1. Rules(n, w) /\ ColumnsRead(x, n)
  BY RulesHold
<1>2. /\ Reads(Factors!Mean(hit, w), n, w) /\ Reads(Factors!Mean(x.turnover, w), n, w)
      /\ Reads(Factors!Change(filled, w), n, w) /\ Reads(Factors!Change(clean, w), n, w)
      /\ Reads(Factors!Change(close, w), n, w) /\ Reads(Factors!Std(returns, w), n, w)
      /\ Reads(x.ind, n, w)
  BY <1>1 DEF Rules, Levels, Combined, ColumnsRead, OwnRows, Factors!Hit,
     Factors!Returns
<1> HIDE DEF clean, filled, close, hit, returns
<1>3. /\ Reads(r.limit_band_pos_mean, n, w) /\ Reads(r.hit_up_limit_count, n, w)
      /\ Reads(r.pct_chg_mean, n, w) /\ Reads(r.ep_ttm_change, n, w)
      /\ Reads(r.ep_ttm_clean_change, n, w) /\ Reads(r.industry_rel_ret, n, w)
      /\ Reads(r.stock_vs_industry_std_ratio, n, w)
  BY <1>1, <1>2 DEF Rules, Combined, Factors!TsChanges, clean, filled, close, hit, returns
<1> QED BY <1>1, <1>3 DEF Rules, Levels, RecordReads, Factors!TsChanges

\* Departures from the usual read the window and the row before it.
LEMMA TsSurprisesRead ==
  ASSUME NEW n \in Nat, NEW w \in Nat \ {0}, NEW x, ColumnsRead(x, n)
  PROVE  RecordReads(Factors!TsSurprises(x, w), n, w + 1)
<1> DEFINE r == Factors!TsSurprises(x, w)
           ratio == Factors!Each({x.turnover_free, Factors!NonZero(x.turnover, x.zero)})
           returns == Factors!Returns(x)
           amihud == Factors!Each({returns, x.amount})
           yield == Factors!Each({x.div, Factors!NonZero(x.close, x.zero)})
<1>1. Rules(n, w) /\ ColumnsRead(x, n)
  BY RulesHold
<1>2. /\ Reads(amihud, n, 1) /\ Reads(ratio, n, 1) /\ Reads(yield, n, 1)
  BY <1>1 DEF Rules, Levels, Combined, ColumnsRead, OwnRows, Factors!Returns
<1>3. /\ Reads(Factors!Mean(ratio, w), n, w + 1) /\ Reads(Factors!Std(ratio, w), n, w + 1)
      /\ Reads(ratio, n, w + 1)
      /\ Reads(Factors!Mean(amihud, w), n, w + 1)
      /\ Reads(Factors!Mean(amihud, w + 1), n, w + 1)
      /\ Reads(yield, n, w + 1) /\ Reads(Factors!Shift(Factors!Mean(yield, w), 1), n, w + 1)
  BY <1>1, <1>2 DEF Rules, Levels
<1> HIDE DEF ratio, returns, amihud, yield
<1>4. /\ Reads(r.free_turnover_ratio_zscore, n, w + 1) /\ Reads(r.amihud_term, n, w + 1)
      /\ Reads(r.dividend_cash_yield_proxy_surprise, n, w + 1)
  BY <1>1, <1>3 DEF Rules, Combined, Factors!TsSurprises, ratio, returns, amihud, yield
<1> QED BY <1>4 DEF RecordReads, Factors!TsSurprises

\* The turnover of falling days and closeness to the limit read the window.
LEMMA TsPressureRead ==
  ASSUME NEW n \in Nat, NEW w \in Nat \ {0}, NEW x, ColumnsRead(x, n)
  PROVE  RecordReads(Factors!TsPressure(x, w), n, w + 1)
<1> DEFINE r == Factors!TsPressure(x, w)
           returns == Factors!Returns(x)
           masked == Factors!Each({x.turnover, returns})
           near == Factors!Flag({Factors!Hit(x)})
<1>1. Rules(n, w) /\ ColumnsRead(x, n)
  BY RulesHold
<1>2. /\ Reads(Factors!Mean(masked, w), n, w) /\ Reads(Factors!Mean(x.turnover, w), n, w)
      /\ Reads(Factors!Mean(near, w), n, w) /\ Reads(Factors!Corr(returns, x.turnover, w), n, w)
  BY <1>1 DEF Rules, Levels, Combined, ColumnsRead, OwnRows, Factors!Hit,
     Factors!Returns
<1> HIDE DEF returns, masked, near
<1>3. /\ Reads(r.up_down_turnover_ratio, n, w) /\ Reads(r.return_turnover_corr, n, w)
      /\ Reads(r.downside_turnover_pressure, n, w) /\ Reads(r.near_up_limit_count, n, w)
  BY <1>1, <1>2 DEF Rules, Combined, Factors!TsPressure, returns, masked, near
<1> QED BY <1>1, <1>3 DEF Rules, Levels, RecordReads, Factors!TsPressure

\* A stock against its industry reads the window.
LEMMA TsIndustryRead ==
  ASSUME NEW n \in Nat, NEW w \in Nat \ {0}, NEW x, ColumnsRead(x, n)
  PROVE  RecordReads(Factors!TsIndustry(x, w), n, w + 1)
<1> DEFINE r == Factors!TsIndustry(x, w)
           own == Factors!Change(Factors!NonZero(x.close, x.zero), w)
<1>1. Rules(n, w) /\ ColumnsRead(x, n)
  BY RulesHold
<1>2. Reads(own, n, w) /\ Reads(x.ind, n, w)
  BY <1>1 DEF Rules, Levels, ColumnsRead, OwnRows
<1> HIDE DEF own
<1>3. /\ Reads(r.industry_breadth_accel, n, w) /\ Reads(r.stock_industry_ret_gap, n, w)
      /\ Reads(r.stock_relative_strength_quality, n, w)
  BY <1>1, <1>2 DEF Rules, Combined, Factors!TsIndustry, own
<1>4. RecordReads(r, n, w)
  BY <1>3 DEF RecordReads, Factors!TsIndustry
<1> QED BY <1>1, <1>4 DEF Rules, Levels, RecordReads

\* A stock over the mean of its industry reads the window.
LEMMA TsSpreadsRead ==
  ASSUME NEW n \in Nat, NEW w \in Nat \ {0}, NEW x, ColumnsRead(x, n)
  PROVE  RecordReads(Factors!TsSpreads(x, w), n, w + 1)
<1> DEFINE r == Factors!TsSpreads(x, w)
           yield == Factors!Each({x.div, x.ind})
           clean == Factors!NonZero(x.valuation, x.zero)
<1>1. Rules(n, w) /\ ColumnsRead(x, n)
  BY RulesHold
<1>2. /\ Reads(yield, n, 0) /\ Reads(clean, n, 0) /\ Reads(x.ind, n, 0) /\ Reads(x.fi, n, 0)
      /\ Reads(Factors!Filled(clean), n, 0)
  BY <1>1 DEF Rules, Combined, ColumnsRead, OwnRows
<1>3. /\ Reads(yield, n, w) /\ Reads(clean, n, w) /\ Reads(x.ind, n, w) /\ Reads(x.fi, n, w)
      /\ Reads(Factors!Filled(clean), n, w)
      /\ Reads(Factors!Mean(yield, w), n, w) /\ Reads(Factors!Std(yield, w), n, w)
  BY <1>1, <1>2 DEF Rules, Levels
<1> HIDE DEF yield, clean
<1>4. /\ Reads(r.ep_minus_industry_ep, n, w) /\ Reads(r.bp_clean_minus_industry, n, w)
      /\ Reads(r.dividend_yield_minus_industry, n, w)
      /\ Reads(r.dividend_yield_industry_spread_zscore, n, w)
      /\ Reads(r.fi_ocf_to_eps_minus_industry, n, w)
  BY <1>1, <1>3 DEF Rules, Combined, Factors!TsSpreads, yield, clean
<1>5. RecordReads(r, n, w)
  BY <1>4 DEF RecordReads, Factors!TsSpreads
<1> QED BY <1>1, <1>5 DEF Rules, Levels, RecordReads

\* Turnover and liquidity relative to the industry read the window.
LEMMA TsRelativeRead ==
  ASSUME NEW n \in Nat, NEW w \in Nat \ {0}, NEW x, ColumnsRead(x, n)
  PROVE  RecordReads(Factors!TsRelative(x, w), n, w + 1)
<1> DEFINE r == Factors!TsRelative(x, w)
           returns == Factors!Returns(x)
           amihud == Factors!Each({returns, x.amount})
           RelativeTo(s) == Factors!Relative(s, x, w)
           std == Factors!Each({Factors!Std(returns, w), x.ind})
<1>1. Rules(n, w) /\ ColumnsRead(x, n)
  BY RulesHold
<1>2. /\ Reads(returns, n, 1) /\ Reads(x.amount, n, 1) /\ Reads(Factors!Hit(x), n, 1)
      /\ Reads(x.turnover, n, 1) /\ Reads(x.turnover_free, n, 1) /\ Reads(x.ind, n, w)
  BY <1>1 DEF Rules, Levels, Combined, ColumnsRead, OwnRows, Factors!Hit, Factors!Returns
<1>3. /\ Reads(RelativeTo(x.turnover), n, w) /\ Reads(RelativeTo(x.turnover_free), n, w)
      /\ Reads(RelativeTo(amihud), n, w) /\ Reads(RelativeTo(Factors!Hit(x)), n, w)
      /\ Reads(std, n, w)
  BY <1>1, <1>2 DEF Rules, Levels, Combined, Factors!Relative
<1> HIDE DEF returns, amihud, RelativeTo, std
<1>4. /\ Reads(r.turnover_ratio, n, w) /\ Reads(r.amihud_ratio, n, w)
      /\ Reads(r.hit_up_limit_gap, n, w) /\ Reads(r.crowding, n, w)
      /\ Reads(r.liquidity_stress, n, w) /\ Reads(r.low_vol_liquidity, n, w)
  BY <1>1, <1>3 DEF Rules, Graded, Factors!TsRelative, returns, amihud, RelativeTo, std
<1> QED BY <1>1, <1>4 DEF Rules, Levels, RecordReads, Factors!TsRelative

\* Composite grades read the window and the row before it.
LEMMA TsCompositesRead ==
  ASSUME NEW n \in Nat, NEW w \in Nat \ {0}, NEW x, ColumnsRead(x, n)
  PROVE  RecordReads(Factors!TsComposites(x, w), n, w + 1)
<1> DEFINE r == Factors!TsComposites(x, w)
           returns == Factors!Returns(x)
           amihud == Factors!Each({returns, x.amount})
           std == Factors!Each({Factors!Std(returns, w), x.ind})
           close == Factors!NonZero(x.close, x.zero)
           clean == Factors!NonZero(x.valuation, x.zero)
           counts == Factors!Mean(Factors!Hit(x), w)
           yield == Factors!Each({x.div, x.ind})
           paid == Factors!Weighted(<<<<50, Factors!Payout(x)>>, <<50, Factors!Payout(x)>>>>, 25)
           pressure == Factors!TsPressure(x, w)
<1>1. Rules(n, w) /\ ColumnsRead(x, n)
  BY RulesHold
<1>2. /\ Reads(returns, n, 1) /\ Reads(x.amount, n, 1) /\ Reads(Factors!Hit(x), n, 1)
      /\ Reads(Factors!Payout(x), n, 0)
      /\ Reads(close, n, 0) /\ Reads(clean, n, 0) /\ Reads(x.ind, n, 0) /\ Reads(x.fi, n, 0)
      /\ Reads(yield, n, 0)
      /\ Reads(x.fc, n, 0) /\ Reads(x.age, n, 0)
  BY <1>1 DEF Rules, Levels, Combined, ColumnsRead, OwnRows, Factors!Hit, Factors!Returns,
     Factors!Payout
<1>3. /\ Reads(Factors!Quality(x), n, 0) /\ Reads(Factors!Value(x), n, 0)
      /\ Reads(Factors!Growth(x), n, 0)
      /\ Reads(Factors!Forecast(x), n, 0) /\ Reads(Factors!TrendQuality(x), n, 0)
      /\ Reads(paid, n, 0)
  BY <1>1, <1>2, ZenonT(40) DEF Rules, Levels, Combined, Graded, Factors!Quality, Factors!Value,
     Factors!Growth, Factors!Forecast, Factors!TrendQuality
<1>4. Reads(amihud, n, 1) /\ Reads(Factors!Std(returns, w), n, w) /\ Reads(x.ind, n, w)
  BY <1>1, <1>2 DEF Rules, Levels, Combined
<1>5. RecordReads(pressure, n, w + 1)
  BY TsPressureRead
<1>6. /\ Reads(pressure.up_down_turnover_ratio, n, w + 1)
      /\ Reads(pressure.return_turnover_corr, n, w + 1)
      /\ Reads(pressure.downside_turnover_pressure, n, w + 1)
      /\ Reads(pressure.near_up_limit_count, n, w + 1)
  BY <1>5 DEF RecordReads, Factors!TsPressure
<1>7. /\ Reads(std, n, w) /\ Reads(counts, n, w) /\ Reads(Factors!Relative(amihud, x, w), n, w)
      /\ Reads(Factors!Change(close, w), n, w)
      /\ Reads(Factors!Shift(Factors!Mean(Factors!Growth(x), w), 1), n, w + 1)
      /\ Reads(Factors!Quality(x), n, w) /\ Reads(Factors!Value(x), n, w)
      /\ Reads(Factors!Growth(x), n, w)
      /\ Reads(Factors!Forecast(x), n, w) /\ Reads(Factors!TrendQuality(x), n, w)
      /\ Reads(yield, n, w) /\ Reads(paid, n, w)
  BY <1>1, <1>2, <1>3 DEF Rules, Levels, Combined, Factors!Relative
<1>8. /\ Reads(std, n, w + 1) /\ Reads(counts, n, w + 1)
      /\ Reads(Factors!Relative(amihud, x, w), n, w + 1)
      /\ Reads(Factors!Change(close, w), n, w + 1)
      /\ Reads(Factors!Quality(x), n, w + 1) /\ Reads(Factors!Value(x), n, w + 1)
      /\ Reads(Factors!Growth(x), n, w + 1)
      /\ Reads(Factors!Forecast(x), n, w + 1) /\ Reads(Factors!TrendQuality(x), n, w + 1)
      /\ Reads(yield, n, w + 1) /\ Reads(paid, n, w + 1)
  BY <1>1, <1>7 DEF Rules, Levels
<1>9. Reads(Factors!Absorption(x, w), n, w + 1) /\ Reads(Factors!Relief(x, w), n, w + 1)
  BY <1>1, <1>2, <1>3, <1>4, <1>5, <1>6, <1>7, <1>8, ZenonT(40) DEF Rules, Levels, Combined, Graded,
     Factors!Absorption, Factors!Relief
<1> HIDE DEF returns, amihud, std, close, clean, counts, yield, paid, pressure
<1>10. /\ Reads(r.sem_value_quality_low_vol, n, w + 1)
      /\ Reads(r.sem_dividend_cash_quality, n, w + 1)
      /\ Reads(r.sem_growth_cash_quality_accel, n, w + 1)
      /\ Reads(r.sem_forecast_unpriced, n, w + 1)
      /\ Reads(r.sem_industry_strength_low_vol, n, w + 1)
      /\ Reads(r.sem_liquidity_absorption, n, w + 1)
      /\ Reads(r.sem_downside_liquidity_relief, n, w + 1)
      /\ Reads(r.sem_limit_breakout_quality, n, w + 1)
  BY <1>1, <1>2, <1>3, <1>4, <1>5, <1>6, <1>7, <1>8, <1>9, ZenonT(40) DEF Rules, Combined, Graded,
     Factors!TsComposites, returns, amihud, std, close, clean, counts, yield, paid, pressure
<1>11. RecordReads(r, n, w + 1)
  BY <1>10 DEF RecordReads, Factors!TsComposites
<1> QED BY <1>11

-----------------------------------------------------------------------------
(* Factors of the whole history.                                           *)

\* What the averages of the whole past do to series of any of it.
WholePast(n) ==
  /\ Combined(n, n)
  /\ \A s : Reads(s, n, 0) => Reads(s, n, n)
  /\ \A s : Reads(s, n, n) =>
       /\ Reads(Factors!Shift(s, 1), n, n) /\ Reads(Factors!Change(s, 1), n, n)
       /\ Reads(Factors!EventAge(s), n, n) /\ Reads(Factors!EventStreak(s), n, n)
  /\ \A s, min : Reads(s, n, n) => Reads(Factors!Ewm(s, min), n, n)

\* The whole past stays within the past.
LEMMA WholePastHolds ==
  ASSUME NEW n \in Nat
  PROVE  WholePast(n)
<1>1. Combined(n, n)
  BY CombinedReads
<1>2. ASSUME NEW s, Reads(s, n, 0) PROVE Reads(s, n, n)
  BY <1>2, ReadsAll
<1>3. ASSUME NEW s, Reads(s, n, n)
      PROVE  Reads(Factors!Shift(s, 1), n, n) /\ Reads(Factors!Change(s, 1), n, n)
  <2>1. Reads(Factors!Shift(s, 1), n, n + 1)
    BY <1>3, ShiftReads
  <2>2. Reads(Factors!Shift(s, 1), n, n)
    BY <2>1, ReadsAll
  <2> QED BY <1>1, <1>3, <2>2 DEF Combined, Factors!Change
<1>4. ASSUME NEW s, Reads(s, n, n)
      PROVE  /\ Reads(Factors!EventAge(s), n, n) /\ Reads(Factors!EventStreak(s), n, n)
             /\ \A min : Reads(Factors!Ewm(s, min), n, n)
  BY <1>4, HistoryReads
<1> QED BY <1>1, <1>2, <1>3, <1>4 DEF WholePast

\* Moving averages read no later row.
LEMMA TrendsRead ==
  ASSUME NEW n \in Nat, NEW w, NEW x, ColumnsRead(x, n)
  PROVE  RecordReads(Factors!Trends(x, w), n, n)
<1> DEFINE close == Factors!NonZero(x.close, x.zero)
           line == Factors!Each({Factors!Ewm(close, w), Factors!Ewm(close, w + 1)})
           moves == Factors!Flag({x.high, Factors!Shift(x.high, 1), x.low, Factors!Shift(x.low, 1)})
           range == Factors!TrueRange(x, close)
           di == Factors!Each({Factors!Ewm(moves, w), Factors!Ewm(range, w)})
           third == Factors!Ewm(Factors!Ewm(Factors!Ewm(close, w), w), w)
           trix == Factors!Change(third, 1)
           r == Factors!Trends(x, w)
<1>1. WholePast(n)
  BY WholePastHolds
<1>2. Reads(close, n, n) /\ Reads(x.high, n, n) /\ Reads(x.low, n, n)
  BY <1>1 DEF WholePast, Combined, ColumnsRead, OwnRows
<1>3. Reads(range, n, n)
  BY <1>1, <1>2, TrueRangeReads DEF WholePast
<1> HIDE DEF close, range
<1>4. Reads(line, n, n) /\ Reads(moves, n, n) /\ Reads(Factors!Change(close, 1), n, n)
  BY <1>1, <1>2 DEF WholePast, Combined
<1>5. Reads(third, n, n)
  BY <1>1, <1>2 DEF WholePast
<1> HIDE DEF line, moves, third
<1>6. /\ Reads(di, n, n) /\ Reads(trix, n, n) /\ Reads(Factors!Ewm(line, w), n, n)
      /\ Reads(Factors!Ewm(Factors!Change(close, 1), w), n, n)
  BY <1>1, <1>3, <1>4, <1>5 DEF WholePast, Combined
<1> HIDE DEF di, trix
<1>7. /\ Reads(r.macd_line, n, n) /\ Reads(r.macd_signal, n, n) /\ Reads(r.macd_hist, n, n)
      /\ Reads(r.rsi, n, n) /\ Reads(r.plus_di, n, n) /\ Reads(r.adx, n, n)
      /\ Reads(r.trix, n, n) /\ Reads(r.trix_signal, n, n) /\ Reads(r.trix_hist, n, n)
  BY <1>1, <1>4, <1>6 DEF WholePast, Combined, Factors!Trends, close, line, moves, range,
     di, third, trix
<1> QED BY <1>7 DEF RecordReads, Factors!Trends

\* The age of the last limit day reads no later row.
LEMMA LimitAgesRead ==
  ASSUME NEW n \in Nat, NEW x, ColumnsRead(x, n)
  PROVE  RecordReads(Factors!TsLimitAges(x), n, n)
<1> DEFINE r == Factors!TsLimitAges(x)
<1>1. WholePast(n)
  BY WholePastHolds
<1>2. Reads(Factors!Hit(x), n, n)
  BY <1>1 DEF WholePast, Combined, ColumnsRead, OwnRows, Factors!Hit
<1>3. Reads(r.days_since_last_up_limit, n, n) /\ Reads(r.up_limit_streak, n, n)
  BY <1>1, <1>2 DEF WholePast, Factors!TsLimitAges
<1> QED BY <1>3 DEF RecordReads, Factors!TsLimitAges

(***************************************************************************)
(* No factor of any source, of any length and with any gaps, reads a later *)
(* row; and a factor of a window of w rows reads none before the w + 2     *)
(* last (alpha158_features and the kernels after it).                      *)
(***************************************************************************)
THEOREM FactorsLookBack ==
  ASSUME NEW n \in Nat, NEW w \in Nat \ {0}, NEW x, SourceOk(x, n)
  PROVE  /\ RecordReads(Factors!Windowed(x, w), n, w + 1)
         /\ RecordReads(Factors!Unbounded(x, w), n, n)
<1>1. ColumnsRead(x, n)
  BY SourceRead
<1>2. RecordReads(Factors!Windowed(x, w), n, w + 1)
  <2> DEFINE R == {Factors!AlphaLevels(x, w), Factors!AlphaPositions(x, w), Factors!AlphaFlows(x, w),
                   Factors!Purified(x, w), Factors!Temporal(x, w), Factors!Oscillators(x, w),
                   Factors!TsLevels(x, w), Factors!TsChanges(x, w), Factors!TsSurprises(x, w),
                   Factors!TsPressure(x, w), Factors!TsIndustry(x, w), Factors!TsRelative(x, w),
                   Factors!TsSpreads(x, w), Factors!TsComposites(x, w), Factors!KbarPrice(x),
                   Factors!TsReports(x), Factors!TsLatest(x)}
  <2>1. \A r \in R : RecordReads(r, n, w + 1)
    BY <1>1, AlphaLevelsRead, AlphaPositionsRead, AlphaFlowsRead, PurifiedRead, TemporalRead,
       OscillatorsRead, TsLevelsRead, TsChangesRead, TsSurprisesRead, TsPressureRead,
       TsIndustryRead, TsRelativeRead, TsSpreadsRead, TsCompositesRead, KbarPriceRead,
       TsReportsRead, TsLatestRead
  <2>2. Factors!Windowed(x, w) = Factors!Merged(R)
    BY DEF Factors!Windowed
  <2> HIDE DEF R
  <2> QED BY <2>1, <2>2, MergedReads DEF RecordReads
<1>3. RecordReads(Factors!Unbounded(x, w), n, n)
  BY <1>1, TrendsRead, LimitAgesRead, MergedReads DEF Factors!Unbounded,
     RecordReads
<1> QED BY <1>2, <1>3

\* The sources that are drawn are such.
LEMMA DrawnSourceOk ==
  FactorCase => SourceOk(case.x, 6) /\ case.zero = case.x.zero
<1> SUFFICES ASSUME NEW gapped, NEW gaps, NEW zero,
                    case = [x |-> Columns(gapped, gaps, zero), zero |-> zero]
             PROVE  SourceOk(case.x, 6) /\ case.zero = case.x.zero
  BY DEF FactorCase
<1>1. ASSUME NEW c \in FactorColumns PROVE ColumnOk(case.x[c], 6)
  <2> DEFINE s == [t \in 1..6 |-> IF c = gapped /\ t \in gaps THEN NaN ELSE {<<c, t>>}]
  <2>1. ColumnOk(s, 6)
    <3>1. \A t \in 1..6 : s[t] = NaN \/ s[t] = {<<c, t>>}
      OBVIOUS
    <3>2. s = [t \in 1..6 |-> s[t]]
      OBVIOUS
    <3>3. \A t : {<<c, t>>} # {} /\ \A cell \in {<<c, t>>} : cell[2] = t
      OBVIOUS
    <3> HIDE DEF s
    <3>4. \A t \in 1..6 : s[t] = NaN \/ (s[t] # {} /\ \A cell \in s[t] : cell[2] = t)
      BY <3>1, <3>3
    <3> QED BY <3>2, <3>4 DEF ColumnOk
  <2> QED BY <2>1 DEF Columns, FactorColumns
<1> QED BY <1>1 DEF SourceOk, Columns

-----------------------------------------------------------------------------
(* Duplicates.                                                             *)

\* The name of a column in one record only is that record's.
LEMMA MergedAt ==
  ASSUME NEW R, NEW r \in R, NEW f \in DOMAIN r, \A other \in R : f \in DOMAIN other => other = r
  PROVE  f \in DOMAIN Factors!Merged(R) /\ Factors!Merged(R)[f] = r[f]
BY DEF Factors!Merged

\* The columns with a duplicate, and the duplicates.
Canonical == {"RSV", "CORR", "LGBM_ret", "LGBM_dist_ma", "LGBM_std", "LGBM_amihud", "LGBM_turnover",
         "LGBM_dist_high", "LGBM_dist_low"}
Twins == {"TEMP_rsv", "TEMP_corr_cv", "TEMP_ret", "TEMP_ma_gap", "TEMP_std", "TEMP_amihud",
            "TEMP_turnover_mean", "TEMP_high_gap", "TEMP_low_gap"}

\* The groups pair these.
LEMMA GroupsPair ==
  /\ Canonical \cap Twins = {}
  /\ \A g \in Factors!DuplicateGroups : g[1] \in Canonical /\ g[2] \in Twins
  /\ \A f, g \in Factors!DuplicateGroups : f[2] = g[2] => f = g
BY DEF Canonical, Twins, Factors!DuplicateGroups

\* Where no cell is a zero nothing is left out.
LEMMA NothingLeftOut ==
  /\ \A s, n : ColumnOk(s, n) => Factors!NonZero(s, {}) = s
  /\ \A s, w : Factors!NonZero(Factors!Mean(s, w), {}) = Factors!Mean(s, w)
  /\ \A s, n, w : ColumnOk(s, n) => Factors!NotAllZero(Factors!Mean(s, w), {}) = Factors!Mean(s, w)
<1>1. ASSUME NEW s, NEW n, ColumnOk(s, n) PROVE Factors!NonZero(s, {}) = s
  BY <1>1 DEF ColumnOk, Factors!NonZero
<1>2. ASSUME NEW s, NEW w
      PROVE  Factors!Mean(s, w) = [t \in DOMAIN s |-> Factors!Mean(s, w)[t]]
             /\ DOMAIN Factors!Mean(s, w) = DOMAIN s
  BY DEF Factors!Mean, Factors!Rolling
<1>3. ASSUME NEW s, NEW w PROVE Factors!NonZero(Factors!Mean(s, w), {}) = Factors!Mean(s, w)
  BY <1>2 DEF Factors!NonZero
<1>4. ASSUME NEW s, NEW n, NEW w, ColumnOk(s, n)
      PROVE  Factors!NotAllZero(Factors!Mean(s, w), {}) = Factors!Mean(s, w)
  <2> DEFINE mean == Factors!Mean(s, w)
             Seen(t) == {e \in DOMAIN s : t - w < e /\ e <= t /\ s[e] # NaN}
  <2>1. mean = [t \in DOMAIN s |-> mean[t]] /\ DOMAIN mean = DOMAIN s
    BY <1>2
  <2>2. ASSUME NEW t \in DOMAIN s, mean[t] # NaN PROVE mean[t] # {}
    <3>1. mean[t] = IF Factors!Cardinality(Seen(t)) < 1 THEN NaN ELSE UNION {s[e] : e \in Seen(t)}
      BY DEF Factors!Mean, Factors!Rolling
    <3> HIDE DEF mean, Seen
    <3>2. Seen(t) # {}
      <4>1. Factors!Cardinality({}) < 1
        BY FS_EmptySet DEF Factors!Cardinality, Cardinality
      <4> QED BY <2>2, <3>1, <4>1
    <3>3. PICK e \in Seen(t) : TRUE
      BY <3>2
    <3>4. mean[t] = UNION {s[i] : i \in Seen(t)}
      BY <2>2, <3>1
    <3> QED BY <1>4, <3>3, <3>4 DEF ColumnOk, Seen
  <2> HIDE DEF mean
  <2> QED BY <2>1, <2>2 DEF mean, Factors!NotAllZero
<1> QED BY <1>1, <1>3, <1>4

\* The duplicates of a source without zeros.
LEMMA TwinsEqual ==
  ASSUME NEW n \in Nat, NEW w, NEW x, SourceOk(x, n), x.zero = {}
  PROVE  /\ Factors!Temporal(x, w).TEMP_rsv = Factors!AlphaLevels(x, w).RSV
         /\ Factors!Temporal(x, w).TEMP_corr_cv = Factors!AlphaPositions(x, w).CORR
         /\ Factors!Temporal(x, w).TEMP_ret = Factors!Purified(x, w).LGBM_ret
         /\ Factors!Temporal(x, w).TEMP_ma_gap = Factors!Purified(x, w).LGBM_dist_ma
         /\ Factors!Temporal(x, w).TEMP_std = Factors!Purified(x, w).LGBM_std
         /\ Factors!Temporal(x, w).TEMP_amihud = Factors!Purified(x, w).LGBM_amihud
         /\ Factors!Temporal(x, w).TEMP_turnover_mean = Factors!Purified(x, w).LGBM_turnover
         /\ Factors!Temporal(x, w).TEMP_high_gap = Factors!Purified(x, w).LGBM_dist_high
         /\ Factors!Temporal(x, w).TEMP_low_gap = Factors!Purified(x, w).LGBM_dist_low
BY NothingLeftOut DEF SourceOk, FactorColumns, Factors!Temporal,
   Factors!AlphaLevels, Factors!AlphaPositions, Factors!Purified

\* The records that hold them.
LEMMA NamesOfRecords ==
  ASSUME NEW x, NEW w
  PROVE  /\ DOMAIN Factors!AlphaLevels(x, w) \cap (Canonical \cup Twins) = {"RSV"}
         /\ DOMAIN Factors!AlphaPositions(x, w) \cap (Canonical \cup Twins) = {"CORR"}
         /\ DOMAIN Factors!Purified(x, w) \cap (Canonical \cup Twins) = Canonical \ {"RSV", "CORR"}
         /\ DOMAIN Factors!Temporal(x, w) \cap (Canonical \cup Twins) = Twins
         /\ \A r \in {Factors!AlphaFlows(x, w), Factors!Oscillators(x, w),
                      Factors!TsLevels(x, w), Factors!TsChanges(x, w), Factors!TsSurprises(x, w),
                      Factors!TsPressure(x, w), Factors!TsIndustry(x, w), Factors!TsRelative(x, w),
                      Factors!TsSpreads(x, w), Factors!TsComposites(x, w), Factors!KbarPrice(x),
                      Factors!TsReports(x), Factors!TsLatest(x)} :
              DOMAIN r \cap (Canonical \cup Twins) = {}
<1>1. DOMAIN Factors!AlphaLevels(x, w) \cap (Canonical \cup Twins) = {"RSV"}
  BY DEF Factors!AlphaLevels, Canonical, Twins
<1>2. DOMAIN Factors!AlphaPositions(x, w) \cap (Canonical \cup Twins) = {"CORR"}
  BY DEF Factors!AlphaPositions, Canonical, Twins
<1>3. DOMAIN Factors!Purified(x, w) \cap (Canonical \cup Twins) = Canonical \ {"RSV", "CORR"}
  BY DEF Factors!Purified, Canonical, Twins
<1>4. DOMAIN Factors!Temporal(x, w) \cap (Canonical \cup Twins) = Twins
  BY DEF Factors!Temporal, Canonical, Twins
<1>5. DOMAIN Factors!AlphaFlows(x, w) \cap (Canonical \cup Twins) = {}
  BY DEF Factors!AlphaFlows, Canonical, Twins
<1>6. DOMAIN Factors!Oscillators(x, w) \cap (Canonical \cup Twins) = {}
  BY DEF Factors!Oscillators, Canonical, Twins
<1>7. DOMAIN Factors!TsLevels(x, w) \cap (Canonical \cup Twins) = {}
  BY DEF Factors!TsLevels, Canonical, Twins
<1>8. DOMAIN Factors!TsChanges(x, w) \cap (Canonical \cup Twins) = {}
  BY DEF Factors!TsChanges, Canonical, Twins
<1>9. DOMAIN Factors!TsSurprises(x, w) \cap (Canonical \cup Twins) = {}
  BY DEF Factors!TsSurprises, Canonical, Twins
<1>10. DOMAIN Factors!TsPressure(x, w) \cap (Canonical \cup Twins) = {}
  BY DEF Factors!TsPressure, Canonical, Twins
<1>11. DOMAIN Factors!TsIndustry(x, w) \cap (Canonical \cup Twins) = {}
  BY DEF Factors!TsIndustry, Canonical, Twins
<1>12. DOMAIN Factors!TsRelative(x, w) \cap (Canonical \cup Twins) = {}
  BY DEF Factors!TsRelative, Canonical, Twins
<1>13. DOMAIN Factors!TsSpreads(x, w) \cap (Canonical \cup Twins) = {}
  BY DEF Factors!TsSpreads, Canonical, Twins
<1>14. DOMAIN Factors!TsComposites(x, w) \cap (Canonical \cup Twins) = {}
  BY DEF Factors!TsComposites, Canonical, Twins
<1>15. /\ DOMAIN Factors!KbarPrice(x) \cap (Canonical \cup Twins) = {}
       /\ DOMAIN Factors!TsReports(x) \cap (Canonical \cup Twins) = {}
       /\ DOMAIN Factors!TsLatest(x) \cap (Canonical \cup Twins) = {}
  BY DEF Factors!KbarPrice, Factors!TsReports, Factors!TsLatest, Canonical, Twins
<1> QED BY <1>1, <1>2, <1>3, <1>4, <1>5, <1>6, <1>7, <1>8, <1>9, <1>10, <1>11, <1>12, <1>13,
           <1>14, <1>15

\* A column of these is its record's.
LEMMA ColumnsOfRecords ==
  ASSUME NEW x, NEW w
  PROVE  LET columns == Factors!Windowed(x, w)
         IN  /\ Canonical \cup Twins \subseteq DOMAIN columns
             /\ columns["RSV"] = Factors!AlphaLevels(x, w).RSV
             /\ columns["CORR"] = Factors!AlphaPositions(x, w).CORR
             /\ \A f \in Canonical \ {"RSV", "CORR"} : columns[f] = Factors!Purified(x, w)[f]
             /\ \A f \in Twins : columns[f] = Factors!Temporal(x, w)[f]
<1> DEFINE Others == {Factors!AlphaFlows(x, w), Factors!Oscillators(x, w),
                      Factors!TsLevels(x, w), Factors!TsChanges(x, w), Factors!TsSurprises(x, w),
                      Factors!TsPressure(x, w), Factors!TsIndustry(x, w), Factors!TsRelative(x, w),
                      Factors!TsSpreads(x, w), Factors!TsComposites(x, w), Factors!KbarPrice(x),
                      Factors!TsReports(x), Factors!TsLatest(x)}
           levels == Factors!AlphaLevels(x, w)
           positions == Factors!AlphaPositions(x, w)
           purified == Factors!Purified(x, w)
           temporal == Factors!Temporal(x, w)
           R == {levels, positions, purified, temporal} \cup Others
           columns == Factors!Windowed(x, w)
<1>1. columns = Factors!Merged(R)
  BY DEF Factors!Windowed
<1>2. /\ DOMAIN levels \cap (Canonical \cup Twins) = {"RSV"}
      /\ DOMAIN positions \cap (Canonical \cup Twins) = {"CORR"}
      /\ DOMAIN purified \cap (Canonical \cup Twins) = Canonical \ {"RSV", "CORR"}
      /\ DOMAIN temporal \cap (Canonical \cup Twins) = Twins
      /\ \A r \in Others : DOMAIN r \cap (Canonical \cup Twins) = {}
  BY NamesOfRecords
<1>3. "RSV" \in Canonical /\ "CORR" \in Canonical /\ Canonical \cap Twins = {} /\ "RSV" # "CORR"
  BY GroupsPair DEF Canonical
<1> HIDE DEF Others, columns, levels, positions, purified, temporal
<1>4. "RSV" \in DOMAIN columns /\ columns["RSV"] = levels["RSV"]
  BY <1>1, <1>2, <1>3, MergedAt
<1>5. "CORR" \in DOMAIN columns /\ columns["CORR"] = positions["CORR"]
  BY <1>1, <1>2, <1>3, MergedAt
<1>6. ASSUME NEW f \in Canonical \ {"RSV", "CORR"}
      PROVE  f \in DOMAIN columns /\ columns[f] = purified[f]
  <2>1. purified \in R /\ f \in DOMAIN purified /\ \A r \in R : f \in DOMAIN r => r = purified
    BY <1>2, <1>3
  <2> HIDE DEF R
  <2> QED BY <1>1, <2>1, MergedAt
<1>7. ASSUME NEW f \in Twins
      PROVE  f \in DOMAIN columns /\ columns[f] = temporal[f]
  BY <1>1, <1>2, <1>3, MergedAt
<1> QED BY <1>4, <1>5, <1>6, <1>7 DEF columns, levels, positions, purified, temporal

(***************************************************************************)
(* What training reads for a column is in the store; and it is the column, *)
(* of any source without zeros, of any length and with any gaps            *)
(* (deduplicate_exact_feature_columns, canonical_feature_source).          *)
(***************************************************************************)
THEOREM DuplicatesEqual ==
  ASSUME NEW n \in Nat, NEW w, NEW x, SourceOk(x, n), NEW f \in DOMAIN Factors!Windowed(x, w)
  PROVE  /\ Factors!SourceOf(f) \in Factors!Stored(DOMAIN Factors!Windowed(x, w))
         /\ x.zero = {} =>
              Factors!Windowed(x, w)[f] = Factors!Windowed(x, w)[Factors!SourceOf(f)]
<1> DEFINE columns == Factors!Windowed(x, w)
<1>1. /\ Canonical \cup Twins \subseteq DOMAIN columns
      /\ columns["RSV"] = Factors!AlphaLevels(x, w).RSV
      /\ columns["CORR"] = Factors!AlphaPositions(x, w).CORR
      /\ \A c \in Canonical \ {"RSV", "CORR"} : columns[c] = Factors!Purified(x, w)[c]
      /\ \A c \in Twins : columns[c] = Factors!Temporal(x, w)[c]
  BY ColumnsOfRecords
<1>2. f \in DOMAIN columns
  OBVIOUS
<1> HIDE DEF columns
<1>3. CASE \E g \in Factors!DuplicateGroups : g[2] = f
  <2>1. PICK g \in Factors!DuplicateGroups : g[2] = f
    BY <1>3
  <2>2. Factors!SourceOf(f) = g[1]
    BY <1>3, <2>1, GroupsPair DEF Factors!SourceOf
  <2>3. x.zero = {} => columns[g[2]] = columns[g[1]]
    BY <1>1, TwinsEqual DEF Factors!DuplicateGroups, Canonical, Twins
  <2> QED BY <1>1, <2>1, <2>2, <2>3, GroupsPair DEF columns, Factors!Stored
<1>4. CASE ~\E g \in Factors!DuplicateGroups : g[2] = f
  BY <1>2, <1>4 DEF Factors!SourceOf, columns, Factors!Stored
<1> QED BY <1>3, <1>4

-----------------------------------------------------------------------------
(* The evidence of factors: the operators of the library.                  *)

\* FactorEvidence takes its sizes, sums and filters from the library.
LEMMA FoundOperators ==
  /\ \A S : Found!Cardinality(S) = Cardinality(S)
  /\ \A f, S : Found!Sum(f, S) = SumFunctionOnSet(f, S)
  /\ \A f : Found!Range(f) = Range(f)
  /\ \A f, S : Found!Restrict(f, S) = Restrict(f, S)
  /\ \A s, S : Found!Kept(s, S) = Kept(s, S)
<1>1. \A f, S : Found!Sum(f, S) = SumFunctionOnSet(f, S)
  BY DEF Found!Sum, Found!SumFunctionOnSet, Found!FoldFunctionOnSet, Found!MapThenFoldSet,
         SumFunctionOnSet, FoldFunctionOnSet, MapThenFoldSet
<1>2. /\ \A f : Found!Range(f) = Range(f)
      /\ \A f, S : Found!Restrict(f, S) = Restrict(f, S)
  BY DEF Found!Range, Range, Found!Restrict, Restrict
<1>3. \A s, S : Found!Kept(s, S) = Kept(s, S)
  BY DEF Found!Kept, Kept
<1> QED BY <1>1, <1>2, <1>3 DEF Found!Cardinality, Cardinality

-----------------------------------------------------------------------------
(* What stays of a list.                                                   *)

\* The length of a list that has been looked at, and what stays of it.
IsStaying(g, n, list, standsFor) ==
  g = [i \in 0..n |->
         IF i = 0 THEN <<>>
         ELSE IF \E q \in Range(g[i - 1]) : <<q, list[i]>> \in standsFor
         THEN g[i - 1] ELSE Append(g[i - 1], list[i])]

(***************************************************************************)
(* The recursive function of Surviving exists: a least length without one  *)
(* is one more than a length with one.                                     *)
(***************************************************************************)
LEMMA StayingExists ==
  ASSUME NEW list, NEW standsFor, NEW n \in Nat
  PROVE  \E g : IsStaying(g, n, list, standsFor)
<1> DEFINE bad == {m \in Nat : ~\E g : IsStaying(g, m, list, standsFor)}
<1>1. SUFFICES ASSUME bad # {} PROVE FALSE
  OBVIOUS
<1>2. PICK m \in bad : \A l \in bad : m <= l
  BY <1>1, LeastExists
<1>3. m \in Nat /\ ~\E g : IsStaying(g, m, list, standsFor)
  OBVIOUS
<1>4. m # 0
  <2> DEFINE g == [i \in 0..0 |-> <<>>]
  <2>1. \A i \in 0..0 : i = 0
    OBVIOUS
  <2>2. IsStaying(g, 0, list, standsFor)
    BY <2>1 DEF IsStaying
  <2> QED BY <1>3, <2>2
<1>5. PICK g : IsStaying(g, m - 1, list, standsFor)
  BY <1>2, <1>3, <1>4
<1> HIDE DEF bad
<1> DEFINE goes(f, i) == \E q \in Range(f[i - 1]) : <<q, list[i]>> \in standsFor
           h == [i \in 0..m |-> IF i = m THEN IF goes(g, m) THEN g[m - 1] ELSE Append(g[m - 1], list[m])
                                ELSE g[i]]
<1>6. ASSUME NEW i \in 0..m
      PROVE  h[i] = IF i = 0 THEN <<>>
                    ELSE IF goes(h, i) THEN h[i - 1] ELSE Append(h[i - 1], list[i])
  <2>1. i # 0 => i - 1 \in 0..m /\ i - 1 # m
    BY <1>3
  <2>2. i # m => i \in 0..(m - 1)
    BY <1>3, <1>4
  <2>3. i # m => g[i] = IF i = 0 THEN <<>>
                        ELSE IF goes(g, i) THEN g[i - 1] ELSE Append(g[i - 1], list[i])
    BY <1>5, <2>2 DEF IsStaying
  <2>4. i # 0 => h[i - 1] = g[i - 1]
    BY <2>1
  <2> QED BY <1>4, <2>3, <2>4
<1>7. h = [i \in 0..m |-> h[i]]
  OBVIOUS
<1> HIDE DEF h
<1>8. IsStaying(h, m, list, standsFor)
  BY <1>6, <1>7 DEF IsStaying
<1> QED BY <1>3, <1>8

\* One element of a list comes before another and does not stand for it.
Comes(x, y, list) == \E m, n \in DOMAIN list : m < n /\ x = list[m] /\ y = list[n]
Follows(x, y, list, standsFor) == Comes(x, y, list) /\ <<x, y>> \notin standsFor
InOrder(s, list, standsFor) ==
  \A i, j \in DOMAIN s : i < j => Follows(s[i], s[j], list, standsFor)

\* What is known of the i first of a list when they have been looked at.
Stayed(s, i, list, standsFor) ==
  /\ s \in Seq(Range(list))
  /\ \A k \in DOMAIN s : \E m \in 1..i : s[k] = list[m]
  /\ InOrder(s, list, standsFor)
  /\ \A n \in 1..i : \/ list[n] \in Range(s)
                     \/ \E m \in 1..(n - 1) : list[m] \in Range(s) /\ <<list[m], list[n]>> \in standsFor

\* One more of a list is looked at.
LEMMA OneMore ==
  ASSUME NEW T, NEW list \in Seq(T), NEW standsFor, NEW i \in 1..Len(list), NEW s,
         Stayed(s, i - 1, list, standsFor)
  PROVE  Stayed(IF \E q \in Range(s) : <<q, list[i]>> \in standsFor THEN s ELSE Append(s, list[i]),
                i, list, standsFor)
<1> DEFINE x == list[i]
           goes == \E q \in Range(s) : <<q, x>> \in standsFor
           a == Append(s, x)
           l == Len(s)
<1>1. Len(list) \in Nat /\ DOMAIN list = 1..Len(list) /\ i \in DOMAIN list /\ x \in Range(list)
  BY LenProperties DEF Range
<1>2. 1..i = 1..(i - 1) \cup {i} /\ i \notin 1..(i - 1) /\ i \in Nat
  BY <1>1
<1>3. /\ s \in Seq(Range(list)) /\ l \in Nat /\ DOMAIN s = 1..l
      /\ a \in Seq(Range(list)) /\ DOMAIN a = 1..(l + 1)
      /\ (\A k \in 1..l : a[k] = s[k]) /\ a[l + 1] = x
      /\ Range(a) = Range(s) \cup {x}
  BY <1>1, AppendProperties, LenProperties, AppendOne DEF Stayed
<1> HIDE DEF a, l
<1>4. \A k \in 1..l : \E m \in 1..(i - 1) : s[k] = list[m]
  BY <1>3 DEF Stayed
<1>5. CASE goes
  <2>1. PICK q \in Range(s) : <<q, x>> \in standsFor
    BY <1>5
  <2>2. PICK k \in 1..l : q = s[k]
    BY <1>3 DEF Range
  <2>3. PICK m \in 1..(i - 1) : q = list[m]
    BY <1>4, <2>2
  <2>4. ASSUME NEW n \in 1..i
        PROVE  \/ list[n] \in Range(s)
               \/ \E m_1 \in 1..(n - 1) : list[m_1] \in Range(s) /\ <<list[m_1], list[n]>> \in standsFor
    BY <1>2, <2>1, <2>3 DEF Stayed
  <2>5. Stayed(s, i, list, standsFor)
    BY <1>2, <1>3, <1>4, <2>4 DEF Stayed
  <2> QED BY <1>5, <2>5
<1>6. CASE ~goes
  <2>1. ASSUME NEW k \in 1..(l + 1) PROVE \E m \in 1..i : a[k] = list[m]
    <3>1. CASE k = l + 1
      BY <1>2, <1>3, <3>1
    <3>2. CASE k # l + 1
      BY <1>2, <1>3, <1>4, <3>2
    <3> QED BY <3>1, <3>2
  <2>2. ASSUME NEW j \in 1..(l + 1), NEW k \in 1..(l + 1), j < k
        PROVE  Follows(a[j], a[k], list, standsFor)
    <3>1. j \in 1..l
      BY <1>3, <2>2
    <3>2. CASE k = l + 1
      <4>1. PICK m \in 1..(i - 1) : s[j] = list[m]
        BY <1>4, <3>1
      <4>2. a[j] = s[j] /\ a[k] = list[i]
        BY <1>3, <3>1, <3>2
      <4>3. <<s[j], list[i]>> \notin standsFor
        BY <1>3, <1>6, <3>1 DEF Range
      <4> QED BY <1>1, <4>1, <4>2, <4>3 DEF Follows, Comes
    <3>3. CASE k # l + 1
      <4>1. k \in 1..l
        BY <1>3, <3>3
      <4> QED BY <1>3, <2>2, <3>1, <4>1 DEF Stayed, InOrder
    <3> QED BY <3>2, <3>3
  <2>3. ASSUME NEW n \in 1..i
        PROVE  \/ list[n] \in Range(a)
               \/ \E m \in 1..(n - 1) : list[m] \in Range(a) /\ <<list[m], list[n]>> \in standsFor
    BY <1>2, <1>3 DEF Stayed
  <2>4. Stayed(a, i, list, standsFor)
    BY <1>3, <2>1, <2>2, <2>3 DEF Stayed, InOrder
  <2> QED BY <1>6, <2>4 DEF a
<1> QED BY <1>5, <1>6

(***************************************************************************)
(* What stays is of the list and in its order, no element of it stands for *)
(* a later one, and what does not stay has one before it that does and     *)
(* stands for it.                                                          *)
(***************************************************************************)
LEMMA SurvivingStays ==
  ASSUME NEW T, NEW list \in Seq(T), NEW standsFor
  PROVE  Stayed(Found!Surviving(list, standsFor), Len(list), list, standsFor)
<1> DEFINE n == Len(list)
           g == CHOOSE h : IsStaying(h, n, list, standsFor)
           bad == {i \in 0..n : ~Stayed(g[i], i, list, standsFor)}
<1>1. n \in Nat /\ n \in 0..n
  BY LenProperties
<1>2. IsStaying(g, n, list, standsFor)
  BY <1>1, StayingExists
<1>3. Found!Surviving(list, standsFor) = g[n]
  BY Zenon DEF Found!Surviving, IsStaying, Found!Range, Range
<1> HIDE DEF g
<1>4. SUFFICES ASSUME bad # {} PROVE FALSE
  BY <1>1, <1>3
<1>5. PICK m \in bad : \A l \in bad : m <= l
  <2>1. bad \in SUBSET Nat
    BY <1>1
  <2> HIDE DEF bad
  <2> QED BY <1>4, <2>1, LeastExists
<1>6. m \in 0..n /\ ~Stayed(g[m], m, list, standsFor)
  OBVIOUS
<1>7. \A i \in 0..n : g[i] = IF i = 0 THEN <<>>
                             ELSE IF \E q \in Range(g[i - 1]) : <<q, list[i]>> \in standsFor
                             THEN g[i - 1] ELSE Append(g[i - 1], list[i])
  BY <1>2 DEF IsStaying
<1>8. m # 0
  <2>1. g[0] = <<>> /\ 1..0 = {}
    BY <1>1, <1>7
  <2>2. <<>> \in Seq(Range(list)) /\ DOMAIN <<>> = {}
    BY EmptySeq
  <2>3. Stayed(<<>>, 0, list, standsFor)
    BY <2>1, <2>2 DEF Stayed, InOrder
  <2> QED BY <1>6, <2>1, <2>3
<1>9. m \in 1..n /\ m - 1 \in 0..n /\ ~(m <= m - 1)
  BY <1>1, <1>6, <1>8
<1>10. Stayed(g[m - 1], m - 1, list, standsFor)
  BY <1>5, <1>9
<1>11. Stayed(g[m], m, list, standsFor)
  <2>1. m \in 1..Len(list)
    BY <1>9
  <2>2. g[m] = IF \E q \in Range(g[m - 1]) : <<q, list[m]>> \in standsFor
               THEN g[m - 1] ELSE Append(g[m - 1], list[m])
    BY <1>6, <1>7, <1>8
  <2>3. Stayed(IF \E q \in Range(g[m - 1]) : <<q, list[m]>> \in standsFor
               THEN g[m - 1] ELSE Append(g[m - 1], list[m]), m, list, standsFor)
    BY <1>10, <2>1, OneMore
  <2> QED BY <2>2, <2>3
<1> QED BY <1>6, <1>11

-----------------------------------------------------------------------------
(* The ranking of factors: lists of numbers, and the order they make.      *)

\* A number that may be missing.
Numbers == Int \cup {NaN}

\* A row of a factor that can be filtered and ranked.
RowOk(r) == /\ r.name \in Int /\ r.prefix \in Int
            /\ r.segHit \in Numbers /\ r.segRange \in Numbers /\ r.segAbsMax \in Numbers
            /\ r.rankIr \in Numbers /\ r.rankIc \in Numbers /\ r.monotonicity \in Numbers
            /\ r.monthlyPositive \in Numbers /\ r.coverage \in Numbers /\ r.hit \in Numbers

Pairs == Int \X Int
Less(a, b) == a[1] < b[1] \/ (a[1] = b[1] /\ a[2] < b[2])

\* Pairs of numbers are ordered.
LEMMA PairsOrdered ==
  ASSUME NEW a \in Pairs, NEW b \in Pairs, NEW c \in Pairs
  PROVE  /\ ~Less(a, a)
         /\ a # b => Less(a, b) \/ Less(b, a)
         /\ Less(a, b) => ~Less(b, a)
         /\ Less(a, b) /\ Less(b, c) => Less(a, c)
BY DEF Pairs, Less

\* A list of pairs of numbers is before another where they first differ.
Sooner(a, b, n) == \E i \in 1..n : Less(a[i], b[i]) /\ \A j \in 1..(i - 1) : a[j] = b[j]

(***************************************************************************)
(* Lists of as many pairs are ordered by where they first differ.          *)
(***************************************************************************)
LEMMA ListsOrdered ==
  ASSUME NEW n \in Nat, NEW a \in [1..n -> Pairs], NEW b \in [1..n -> Pairs],
         NEW c \in [1..n -> Pairs]
  PROVE  /\ ~Sooner(a, a, n)
         /\ a # b => Sooner(a, b, n) \/ Sooner(b, a, n)
         /\ Sooner(a, b, n) /\ Sooner(b, c, n) => Sooner(a, c, n)
<1>1. \A i \in 1..n : a[i] \in Pairs /\ b[i] \in Pairs /\ c[i] \in Pairs
  OBVIOUS
<1>2. ASSUME a # b PROVE Sooner(a, b, n) \/ Sooner(b, a, n)
  <2> DEFINE differ == {i \in 1..n : a[i] # b[i]}
  <2>1. differ # {}
    BY <1>2
  <2>2. PICK i \in differ : \A j \in differ : i <= j
    <3>1. differ \in SUBSET Nat
      OBVIOUS
    <3> HIDE DEF differ
    <3> QED BY <2>1, <3>1, LeastExists
  <2>3. i \in 1..n /\ a[i] # b[i]
    OBVIOUS
  <2>4. Less(a[i], b[i]) \/ Less(b[i], a[i])
    BY <1>1, <2>3, PairsOrdered
  <2> QED BY <2>2, <2>3, <2>4 DEF Sooner
<1>3. ASSUME Sooner(a, b, n), Sooner(b, c, n) PROVE Sooner(a, c, n)
  <2>1. PICK i \in 1..n : Less(a[i], b[i]) /\ \A j \in 1..(i - 1) : a[j] = b[j]
    BY <1>3 DEF Sooner
  <2>2. PICK k \in 1..n : Less(b[k], c[k]) /\ \A j \in 1..(k - 1) : b[j] = c[j]
    BY <1>3 DEF Sooner
  <2>3. CASE i = k
    BY <1>1, <2>1, <2>2, <2>3, PairsOrdered DEF Sooner
  <2>4. CASE i < k
    BY <2>1, <2>2, <2>4 DEF Sooner
  <2>5. CASE k < i
    BY <2>1, <2>2, <2>5 DEF Sooner
  <2> QED BY <2>3, <2>4, <2>5
<1> QED BY <1>1, <1>2, <1>3, PairsOrdered DEF Sooner

\* The size of a number is one.
LEMMA MagnitudeType ==
  ASSUME NEW v \in Numbers
  PROVE  /\ Found!Magnitude(v) \in Numbers
         /\ v # NaN => /\ Found!Magnitude(v) \in Nat /\ Found!Magnitude(v) # NaN
                       /\ Found!Magnitude(v) = IF v < 0 THEN -v ELSE v
         /\ v = NaN => Found!Magnitude(v) = NaN
BY SentinelAssumption DEF Numbers, Found!Magnitude, Found!Sign

\* What a row is ranked by is a list of pairs, the last of its name.
LEMMA KeysArePairs ==
  ASSUME NEW r, RowOk(r)
  PROVE  Found!Keys(r) \in [1..11 -> Pairs] /\ Found!Keys(r)[11] = <<0, r.name>>
<1> DEFINE up(a) == IF a = NaN THEN <<1, 0>> ELSE <<0, a>>
           down(a) == IF a = NaN THEN <<1, 0>> ELSE <<0, -a>>
           k == Found!Keys(r)
<1>1. \A a \in Numbers : up(a) \in Pairs /\ down(a) \in Pairs
  BY DEF Numbers, Pairs
<1>2. /\ Found!Magnitude(r.rankIr) \in Numbers /\ Found!Magnitude(r.rankIc) \in Numbers
      /\ Found!Magnitude(r.monotonicity) \in Numbers
  BY MagnitudeType DEF RowOk
<1>3. /\ down(r.segHit) \in Pairs /\ up(r.segRange) \in Pairs /\ down(r.segAbsMax) \in Pairs
      /\ down(Found!Magnitude(r.rankIr)) \in Pairs /\ down(Found!Magnitude(r.rankIc)) \in Pairs
      /\ down(Found!Magnitude(r.monotonicity)) \in Pairs
      /\ down(r.monthlyPositive) \in Pairs /\ down(r.coverage) \in Pairs
  <2> HIDE DEF up, down
  <2> QED BY <1>1, <1>2 DEF RowOk
<1>4. k = <<<<0, IF r.flip THEN 1 ELSE 0>>, down(r.segHit), up(r.segRange), down(r.segAbsMax),
            down(Found!Magnitude(r.rankIr)), down(Found!Magnitude(r.rankIc)),
            down(Found!Magnitude(r.monotonicity)), down(r.monthlyPositive), down(r.coverage),
            <<0, r.prefix>>, <<0, r.name>>>>
  BY DEF Found!Keys
<1> HIDE DEF up, down, k
<1>5. k \in [1..11 -> Pairs] /\ k[11] = <<0, r.name>>
  BY <1>3, <1>4 DEF RowOk, Pairs
<1> QED BY <1>5 DEF k

\* The better of two rows is the one whose list of keys is sooner.
LEMMA BetterIsSooner ==
  ASSUME NEW r, NEW q, RowOk(r)
  PROVE  Found!Better(r, q) <=> Sooner(Found!Keys(r), Found!Keys(q), 11)
BY KeysArePairs DEF Found!Better, Less, Sooner

\* Rows of factors: all typed, one of each name.
RowsOk(rows) == /\ IsFiniteSet(rows) /\ \A r \in rows : RowOk(r)
                /\ \A r, q \in rows : r.name = q.name => r = q
Preferred(rows) == {p \in rows \X rows : Found!Better(p[1], p[2])}

(***************************************************************************)
(* Rows of different factors are ordered: missing numbers are the worst,   *)
(* and the name decides at last.                                           *)
(***************************************************************************)
LEMMA BetterOrders ==
  ASSUME NEW rows, RowsOk(rows)
  PROVE  Orders(Preferred(rows), rows)
<1> DEFINE key(r) == Found!Keys(r)
           R == Preferred(rows)
<1>1. \A r \in rows : key(r) \in [1..11 -> Pairs] /\ key(r)[11] = <<0, r.name>>
  BY KeysArePairs DEF RowsOk
<1>2. \A r, q \in rows : key(r) = key(q) => r = q
  <2>1. ASSUME NEW r \in rows, NEW q \in rows, key(r) = key(q) PROVE r = q
    BY <1>1, <2>1 DEF RowsOk
  <2> QED BY <2>1
<1>3. \A r, q \in rows : <<r, q>> \in R <=> Sooner(key(r), key(q), 11)
  BY BetterIsSooner DEF Preferred, RowsOk
<1> HIDE DEF key, R
<1>4. ASSUME NEW r \in rows, NEW q \in rows, NEW s \in rows
      PROVE  /\ ~Sooner(key(r), key(r), 11)
             /\ r # q => Sooner(key(r), key(q), 11) \/ Sooner(key(q), key(r), 11)
             /\ Sooner(key(r), key(q), 11) /\ Sooner(key(q), key(s), 11) => Sooner(key(r), key(s), 11)
  BY <1>1, <1>2, ListsOrdered
<1>5. Orders(R, rows)
  BY <1>3, <1>4 DEF Orders
<1> QED BY <1>5 DEF R

(***************************************************************************)
(* The ranking lists every row, a better one before a worse one.           *)
(***************************************************************************)
LEMMA RankingLists ==
  ASSUME NEW rows, RowsOk(rows)
  PROVE  LET s == Found!Ranked(rows)
         IN  /\ s \in Seq(rows) /\ Range(s) = rows
             /\ \A m, n \in DOMAIN s : m < n => Found!Better(s[m], s[n])
<1> DEFINE R == Preferred(rows)
           c == Cardinality(rows)
           rank == [r \in rows |-> Cardinality(Ahead(R, rows, r))]
           s == Found!Ranked(rows)
           At(n) == CHOOSE r \in rows : Cardinality({q \in rows : Found!Better(q, r)}) = n - 1
<1>1. /\ IsFiniteSet(rows) /\ c \in Nat /\ Orders(R, rows)
      /\ rank \in Bijection(rows, 0..(c - 1))
  BY BetterOrders, EveryRankOnce, FS_CardinalityType DEF RowsOk
<1>2. \A r, q \in rows : <<r, q>> \in R <=> Found!Better(r, q)
  BY DEF Preferred
<1>3. \A r \in rows : rank[r] = Cardinality({q \in rows : Found!Better(q, r)})
  BY <1>2 DEF Ahead
<1>4. \A r, q \in rows : <<r, q>> \in R => rank[r] < rank[q]
  BY <1>1, RankGrows
<1>5. s = [n \in 1..c |-> At(n)]
  BY DEF Found!Ranked, Found!Cardinality, Cardinality
<1> HIDE DEF R, c, rank, s, At
<1>6. ASSUME NEW n \in 1..c
      PROVE  s[n] \in rows /\ rank[s[n]] = n - 1
  BY <1>1, <1>3, <1>5 DEF Bijection, Surjection, At
<1>7. DOMAIN s = 1..c
  BY <1>5
<1>8. s \in Seq(rows)
  <2>1. s \in [1..c -> rows]
    BY <1>5, <1>6
  <2> QED BY <1>1, <2>1, FunctionIsSeq
<1>9. ASSUME NEW r \in rows PROVE r \in Range(s)
  <2>1. rank[r] \in 0..(c - 1)
    BY <1>1 DEF Bijection, Injection
  <2>2. rank[r] + 1 \in 1..c /\ (rank[r] + 1) - 1 = rank[r]
    BY <1>1, <2>1
  <2>3. s[rank[r] + 1] \in rows /\ rank[s[rank[r] + 1]] = rank[r]
    BY <1>6, <2>2
  <2>4. s[rank[r] + 1] = r
    BY <1>1, <2>3 DEF Bijection, Injection, IsInjective
  <2> QED BY <1>7, <2>2, <2>4 DEF Range
<1>10. ASSUME NEW m \in 1..c, NEW n \in 1..c, m < n PROVE Found!Better(s[m], s[n])
  <2>1. s[m] \in rows /\ s[n] \in rows /\ rank[s[m]] = m - 1 /\ rank[s[n]] = n - 1
    BY <1>6
  <2>2. s[m] # s[n]
    BY <1>10, <2>1
  <2>3. <<s[m], s[n]>> \in R \/ <<s[n], s[m]>> \in R
    BY <1>1, <2>1, <2>2 DEF Orders
  <2>4. ~(rank[s[n]] < rank[s[m]])
    BY <1>10, <2>1
  <2> QED BY <1>2, <1>4, <2>1, <2>3, <2>4
<1>11. \A m, n \in DOMAIN s : m < n => Found!Better(s[m], s[n])
  BY <1>7, <1>10
<1> QED BY <1>6, <1>7, <1>8, <1>9, <1>11 DEF s, Range

\* Numbers that are known on a set.
Numeric(f, S) == \A k \in S : f[k] \in Int

\* The square of a number is natural.
LEMMA SquareNat ==
  ASSUME NEW a \in Int
  PROVE  a * a \in Nat
<1>1. CASE a >= 0
  BY <1>1
<1>2. CASE a < 0
  BY <1>2
<1> QED BY <1>1, <1>2

\* Every natural number has a root.
LEMMA SqrtType ==
  ASSUME NEW n \in Nat
  PROVE  Found!Sqrt(n) \in Nat
<1> DEFINE above == {r \in Nat : n < (r + 1) * (r + 1)}
<1>1. n \in above
  OBVIOUS
<1>2. PICK r \in above : \A q \in above : r <= q
  BY <1>1, LeastExists
<1>3. r \in Nat /\ n < (r + 1) * (r + 1)
  OBVIOUS
<1>4. r * r <= n
  <2>1. CASE r = 0
    BY <2>1
  <2>2. CASE r # 0
    BY <1>2, <1>3, <2>2
  <2> QED BY <2>1, <2>2
<1>5. r \in 0..n
  <2>1. r <= r * r
    <3>1. CASE r = 0
      BY <3>1
    <3>2. CASE r # 0
      BY <1>3, <3>2
    <3> QED BY <3>1, <3>2
  <2> QED BY <1>3, <1>4, <2>1
<1>6. Found!Sqrt(n) \in 0..n
  BY <1>3, <1>4, <1>5 DEF Found!Sqrt
<1> QED BY <1>6

\* A mean of numbers is a number, unless there are none.
LEMMA AverageType ==
  ASSUME NEW S, IsFiniteSet(S), NEW f, Numeric(f, S)
  PROVE  /\ Found!Average(f, S) \in Numbers
         /\ S # {} => /\ Found!Average(f, S) \in Int /\ Found!Average(f, S) # NaN
                      /\ Found!Average(f, S) = SumFunctionOnSet(f, S) \div Cardinality(S)
         /\ S = {} => Found!Average(f, S) = NaN
<1>1. CASE S # {}
  <2>1. Cardinality(S) \in Nat \ {0}
    BY <1>1, FS_CardinalityType, FS_EmptySet
  <2>2. SumFunctionOnSet(f, S) \div Cardinality(S) \in Int
    BY <2>1, SumInt, Quotient DEF Numeric
  <2> QED
    BY <1>1, <2>2, FoundOperators, SentinelAssumption DEF Numbers, Found!Average
<1>2. CASE S = {}
  BY <1>2 DEF Found!Average, Numbers
<1> QED BY <1>1, <1>2

-----------------------------------------------------------------------------
(* Correlations.                                                           *)

\* The covariance of two columns, times the square of their length.
Covariance(a, b, S) ==
  Cardinality(S) * SumFunctionOnSet([k \in S |-> a[k] * b[k]], S)
    - SumFunctionOnSet(a, S) * SumFunctionOnSet(b, S)

\* A covariance is a number and does not depend on the order.
LEMMA CovarianceType ==
  ASSUME NEW S, IsFiniteSet(S), NEW f, NEW g, Numeric(f, S), Numeric(g, S)
  PROVE  Covariance(f, g, S) \in Int /\ Covariance(f, g, S) = Covariance(g, f, S)
<1> DEFINE h == [k \in S |-> f[k] * g[k]]
           l == [k \in S |-> g[k] * f[k]]
<1>1. /\ Cardinality(S) \in Int /\ SumFunctionOnSet(f, S) \in Int /\ SumFunctionOnSet(g, S) \in Int
      /\ SumFunctionOnSet(h, S) \in Int
  BY SumInt, FS_CardinalityType DEF Numeric
<1>2. h = l
  BY DEF Numeric
<1>3. /\ Covariance(f, g, S) = Cardinality(S) * SumFunctionOnSet(h, S)
                              - SumFunctionOnSet(f, S) * SumFunctionOnSet(g, S)
      /\ Covariance(g, f, S) = Cardinality(S) * SumFunctionOnSet(l, S)
                              - SumFunctionOnSet(g, S) * SumFunctionOnSet(f, S)
  BY DEF Covariance
<1> HIDE DEF h, l
<1> QED BY <1>1, <1>2, <1>3

\* What a correlation is made of.
LEMMA CorrelationValue ==
  ASSUME NEW S, NEW f, NEW g
  PROVE  Found!Correlation(f, g, S) =
           LET both == Covariance(f, g, S)
               spread == Covariance(f, f, S) * Covariance(g, g, S)
           IN  IF Cardinality(S) < 2 \/ spread <= 0 THEN NaN
               ELSE Found!Sign(both) * Found!Sqrt((100 * both * both) \div spread)
BY FoundOperators DEF Covariance, Found!Correlation

(***************************************************************************)
(* A correlation of numbers is one or is missing, of fewer than two it is  *)
(* missing, and it is the same the other way round.                        *)
(***************************************************************************)
LEMMA CorrelationType ==
  ASSUME NEW S, IsFiniteSet(S), NEW f, NEW g, Numeric(f, S), Numeric(g, S)
  PROVE  /\ Found!Correlation(f, g, S) \in Numbers
         /\ Cardinality(S) < 2 => Found!Correlation(f, g, S) = NaN
         /\ Found!Correlation(f, g, S) = Found!Correlation(g, f, S)
<1> DEFINE both == Covariance(f, g, S)
           ff == Covariance(f, f, S)
           gg == Covariance(g, g, S)
           square == 100 * both * both
<1>1. /\ both \in Int /\ ff \in Int /\ gg \in Int /\ Covariance(g, f, S) = both
  BY CovarianceType
<1>2. /\ Found!Correlation(f, g, S) =
           IF Cardinality(S) < 2 \/ ff * gg <= 0 THEN NaN
           ELSE Found!Sign(both) * Found!Sqrt(square \div (ff * gg))
      /\ Found!Correlation(g, f, S) =
           IF Cardinality(S) < 2 \/ gg * ff <= 0 THEN NaN
           ELSE Found!Sign(both) * Found!Sqrt(square \div (gg * ff))
  BY <1>1, CorrelationValue
<1> HIDE DEF both, ff, gg
<1>3. gg * ff = ff * gg /\ ff * gg \in Int
  BY <1>1
<1>4. ASSUME ~(ff * gg <= 0)
      PROVE  Found!Sign(both) * Found!Sqrt(square \div (ff * gg)) \in Int
  <2> DEFINE m == ff * gg
  <2>1. m \in Nat \ {0}
    BY <1>3, <1>4
  <2>2. both * both \in Nat
    BY <1>1, SquareNat
  <2>3. square \in Nat
    BY <1>1, <2>2
  <2> HIDE DEF m, square
  <2>4. square \div m \in Nat
    BY <2>1, <2>3, Division
  <2> QED BY <1>1, <2>4, SqrtType DEF m, Found!Sign
<1> QED BY <1>2, <1>3, <1>4 DEF Numbers

\* Ranks are numbers.
LEMMA RanksType ==
  ASSUME NEW S, IsFiniteSet(S), NEW f
  PROVE  Numeric(Found!Ranks(f, S), S) /\ DOMAIN Found!Ranks(f, S) = S
         /\ \A k \in S : Found!Ranks(f, S)[k] > 0
<1>1. ASSUME NEW k \in S
      PROVE  /\ Cardinality({j \in S : f[j] < f[k]}) \in Nat
             /\ Cardinality({j \in S : f[j] = f[k]}) \in Nat
  BY FS_Subset, FS_CardinalityType
<1> DEFINE value(k) == 2 * Cardinality({j \in S : f[j] < f[k]}) + Cardinality({j \in S : f[j] = f[k]}) + 1
<1>2. Found!Ranks(f, S) = [k \in S |-> value(k)]
  BY FoundOperators DEF Found!Ranks
<1>3. \A k \in S : value(k) \in Int /\ value(k) > 0
  BY <1>1
<1> HIDE DEF value
<1> QED BY <1>2, <1>3 DEF Numeric

\* A correlation of ranks is a number or missing.
LEMMA RankCorrelationType ==
  ASSUME NEW S, IsFiniteSet(S), NEW f, NEW g
  PROVE  /\ Found!RankCorrelation(f, g, S) \in Numbers
         /\ Cardinality(S) < 2 => Found!RankCorrelation(f, g, S) = NaN
BY RanksType, CorrelationType DEF Found!RankCorrelation

-----------------------------------------------------------------------------
(* What a summary holds.                                                   *)

\* A share is a number.
LEMMA RateType ==
  ASSUME NEW n \in Int, NEW m \in Nat
  PROVE  Found!Rate(n, m) \in Int
BY Quotient DEF Found!Rate

\* So are the shares of what is positive or has the right sign.
LEMMA RatesType ==
  ASSUME NEW S, IsFiniteSet(S), NEW f, NEW direction
  PROVE  Found!PositiveRate(f, S) \in Numbers /\ Found!HitRate(f, S, direction) \in Numbers
<1> DEFINE a == {k \in S : f[k] > 0}
           b == {k \in S : f[k] * direction > 0}
<1>1. a \in SUBSET S /\ b \in SUBSET S
  OBVIOUS
<1>2. Cardinality(S) \in Nat /\ Cardinality(a) \in Nat /\ Cardinality(b) \in Nat
  <2> HIDE DEF a, b
  <2> QED BY <1>1, FS_Subset, FS_CardinalityType
<1>3. /\ Found!PositiveRate(f, S) = IF S = {} THEN NaN ELSE Found!Rate(Cardinality(a), Cardinality(S))
      /\ Found!HitRate(f, S, direction) =
           IF direction = 0 \/ S = {} THEN NaN ELSE Found!Rate(Cardinality(b), Cardinality(S))
  BY FoundOperators DEF Found!PositiveRate, Found!HitRate
<1> HIDE DEF a, b
<1>4. Found!Rate(Cardinality(a), Cardinality(S)) \in Int /\ Found!Rate(Cardinality(b), Cardinality(S)) \in Int
  BY <1>2, RateType
<1> QED BY <1>3, <1>4 DEF Numbers

\* The ratio of a mean to its deviation is a number or missing.
LEMMA InfoRatioType ==
  ASSUME NEW S, IsFiniteSet(S), NEW f, Numeric(f, S)
  PROVE  Found!InfoRatio(f, S) \in Numbers
<1> DEFINE mean == Found!Average(f, S)
           square == [k \in S |-> (f[k] - mean) * (f[k] - mean)]
           std == Found!StdDev(f, S)
           c == Cardinality(S)
<1>1. c \in Nat
  BY FS_CardinalityType
<1>2. std = IF c < 2 THEN NaN ELSE Found!Sqrt(SumFunctionOnSet(square, S) \div (c - 1))
  BY FoundOperators DEF Found!StdDev
<1>3. ASSUME ~(c < 2)
      PROVE  mean \in Int /\ std \in Nat
  <2>1. S # {} /\ c - 1 \in Nat \ {0}
    BY <1>1, <1>3, FS_EmptySet
  <2>2. mean \in Int
    BY <2>1, AverageType
  <2> HIDE DEF mean, c, std
  <2>3. ASSUME NEW k \in S PROVE square[k] \in Nat
    BY <2>2, SquareNat DEF Numeric
  <2> HIDE DEF square
  <2>4. SumFunctionOnSet(square, S) \div (c - 1) \in Nat
    BY <2>1, <2>3, SumNat, Division
  <2> QED BY <1>2, <1>3, <2>2, <2>4, SqrtType
<1>4. Found!InfoRatio(f, S) = IF std \in {NaN, 0} THEN NaN ELSE (10 * mean) \div std
  BY DEF Found!InfoRatio
<1> HIDE DEF mean, std, c
<1>5. CASE std \in {NaN, 0}
  BY <1>4, <1>5 DEF Numbers
<1>6. CASE std \notin {NaN, 0}
  BY <1>2, <1>3, <1>4, <1>6, Quotient DEF Numbers
<1> QED BY <1>5, <1>6

\* What one day says of a factor.
DayOk(r) == /\ r.observed \in Nat /\ r.paired \in Nat
            /\ r.rank \in Numbers /\ r.monotonicity \in Numbers

(***************************************************************************)
(* The summary of finitely many days has numbers or says that they are     *)
(* missing.                                                                *)
(***************************************************************************)
LEMMA SummaryType ==
  ASSUME NEW daily, IsFiniteSet(daily), \A r \in daily : DayOk(r)
  PROVE  LET s == Found!Summary(daily)
         IN  /\ s.coverage \in Numbers /\ s.rankIc \in Numbers /\ s.rankIr \in Numbers
             /\ s.hit \in Numbers /\ s.monthlyPositive \in Numbers /\ s.monotonicity \in Numbers
<1> DEFINE effective == {r \in daily : r.rank # NaN}
           binned == {r \in effective : r.monotonicity # NaN}
           paired == [r \in daily |-> r.paired]
           observed == [r \in daily |-> r.observed]
           ranks == [r \in effective |-> r.rank]
           steps == [r \in binned |-> r.monotonicity]
           mean(name, S) == Found!Average([r \in S |-> r[name]], S)
           monthly == {<<m, mean("rank", {r \in effective : Found!Month(r.day) = m})>> :
                         m \in {Found!Month(r.day) : r \in effective}}
           months == [m \in monthly |-> m[2]]
           direction == Found!Sign(mean("rank", effective))
           s == Found!Summary(daily)
<1>1. /\ s.coverage = Found!Rate(Found!Sum(paired, daily), Found!Sum(observed, daily))
      /\ s.rankIc = Found!Average(ranks, effective)
      /\ s.rankIr = Found!InfoRatio(ranks, effective)
      /\ s.hit = Found!HitRate(months, monthly, direction)
      /\ s.monthlyPositive = Found!PositiveRate(months, monthly)
      /\ s.monotonicity = Found!Average(steps, binned)
  BY DEF Found!Summary
<1>2. effective \in SUBSET daily /\ binned \in SUBSET daily
  OBVIOUS
<1>3. /\ \A r \in daily : paired[r] \in Nat /\ observed[r] \in Nat
      /\ Numeric(ranks, effective) /\ Numeric(steps, binned)
  BY DEF DayOk, Numeric, Numbers
<1>4. IsFiniteSet(monthly)
  <2> DEFINE key == [r \in effective |-> Found!Month(r.day)]
             Ms == {key[r] : r \in effective}
             row == [m \in Ms |-> <<m, mean("rank", {r \in effective : Found!Month(r.day) = m})>>]
             Rs == {row[m] : m \in Ms}
  <2>1. {Found!Month(r.day) : r \in effective} = Ms
    OBVIOUS
  <2>2. monthly = Rs
    BY <2>1
  <2>3. IsFiniteSet(effective)
    BY <1>2, FS_Subset
  <2> HIDE DEF key, row, effective
  <2>4. IsFiniteSet(Ms)
    BY <2>3, KeysFinite
  <2> HIDE DEF Ms
  <2>5. IsFiniteSet(Rs)
    BY <2>4, KeysFinite
  <2> HIDE DEF Rs, monthly
  <2> QED BY <2>2, <2>5
<1> HIDE DEF effective, binned, paired, observed, ranks, steps, monthly, months, direction, s
<1>5. s.coverage \in Numbers
  BY <1>1, <1>3, SumNat, RateType, FoundOperators DEF Numbers
<1>6. s.rankIc \in Numbers /\ s.rankIr \in Numbers /\ s.monotonicity \in Numbers
  BY <1>1, <1>2, <1>3, FS_Subset, AverageType, InfoRatioType
<1> QED BY <1>1, <1>4, <1>5, <1>6, RatesType DEF s

-----------------------------------------------------------------------------
(* What a run finds, of rows that have numbers.                            *)

\* Rows of finitely many days and symbols; and those that all have a label.
RowsTyped(rows) ==
  /\ IsFiniteSet(DOMAIN rows)
  /\ \A k \in DOMAIN rows : /\ k[1] \in Int /\ {"label", "x", "industry"} = DOMAIN rows[k]
                             /\ rows[k].label \in Numbers /\ rows[k].x \in Numbers
Labelled(rows) == RowsTyped(rows) /\ \A k \in DOMAIN rows : rows[k].label \in Int

\* The known rows of a day.
LEMMA KnownOfDay ==
  ASSUME NEW rows, RowsTyped(rows), NEW d
  PROVE  LET x == Found!Column(rows, "x")
             y == Found!Column(rows, "label")
             valid == Found!Known(x, Found!OfDay(rows, d))
         IN  /\ IsFiniteSet(valid) /\ Cardinality(valid) \in Nat /\ Numeric(x, valid)
             /\ Labelled(rows) => Numeric(y, valid)
             /\ Cardinality(Found!OfDay(rows, d)) \in Nat
<1> DEFINE x == Found!Column(rows, "x")
           y == Found!Column(rows, "label")
           day == Found!OfDay(rows, d)
           valid == Found!Known(x, day)
<1>1. day \in SUBSET DOMAIN rows /\ valid \in SUBSET day
  BY DEF Found!Known, Found!OfDay
<1>2. \A k \in DOMAIN rows : x[k] = rows[k].x /\ y[k] = rows[k].label
  BY DEF Found!Column
<1>3. \A k \in valid : x[k] # NaN
  BY DEF Found!Known
<1> HIDE DEF day, valid, x, y
<1>4. IsFiniteSet(day) /\ IsFiniteSet(valid)
  BY <1>1, FS_Subset DEF RowsTyped
<1>5. Numeric(x, valid)
  BY <1>1, <1>2, <1>3 DEF RowsTyped, Numeric, Numbers
<1>6. Labelled(rows) => Numeric(y, valid)
  BY <1>1, <1>2 DEF Labelled, Numeric
<1> QED BY <1>4, <1>5, <1>6, FS_CardinalityType DEF day, valid, x, y

\* A day has numbers or says that they are missing.
LEMMA DailyType ==
  ASSUME NEW rows, RowsTyped(rows), NEW d, NEW bins
  PROVE  DayOk(Found!Daily(rows, d, bins)) /\ Found!Daily(rows, d, bins).day = d
<1> DEFINE x == Found!Column(rows, "x")
           y == Found!Column(rows, "label")
           valid == Found!Known(x, Found!OfDay(rows, d))
           means == Found!BucketMeans(x, y, valid, bins)
           buckets == DOMAIN means
           r == Found!Daily(rows, d, bins)
<1>1. /\ IsFiniteSet(valid) /\ Cardinality(valid) \in Nat /\ Numeric(x, valid)
      /\ Cardinality(Found!OfDay(rows, d)) \in Nat
  BY KnownOfDay
<1>2. IsFiniteSet(buckets)
  BY <1>1, FoundOperators, KeysFinite DEF Found!BucketMeans, Range, Found!Bucket
<1>3. /\ r.day = d
      /\ r.observed = Cardinality(Found!OfDay(rows, d)) /\ r.paired = Cardinality(valid)
      /\ r.rank = Found!RankCorrelation(x, y, valid)
      /\ r.monotonicity \in {NaN, Found!RankCorrelation([b \in buckets |-> b], means, buckets)}
  BY FoundOperators DEF Found!Daily
<1> HIDE DEF valid, buckets, x, y, means, r
<1>4. DayOk(r) /\ r.day = d
  BY <1>1, <1>2, <1>3, RankCorrelationType DEF DayOk, Numbers
<1> QED BY <1>4 DEF r

\* They are what the library takes.
LEMMA EndsType ==
  ASSUME NEW S, IsFiniteSet(S), S # {}, \A x \in S : x \in Int
  PROVE  /\ Found!Max(S) \in S /\ Found!Min(S) \in S
         /\ \A y \in S : Found!Min(S) <= y /\ y <= Found!Max(S)
BY EndsExist DEF Found!Max, Found!Min

\* A run over any days, with any labels it may compare with.
RunOk(run) == /\ run.threshold \in Int /\ run.horizon \in Nat
              /\ run.space \in {"raw_return", "industry_excess", "benchmark_excess"}
              /\ run.benchmark = None \/ run.benchmark \in Seq([day : Int, value : Numbers])

\* The mean of the peers of a row is a number if one of them has one.
LEMMA PeerMeanType ==
  ASSUME NEW rows, RowsTyped(rows), NEW k \in DOMAIN rows, NEW name \in {"label", "x"}
  PROVE  /\ Found!PeerMean(rows, name, k) \in Numbers
         /\ rows[k][name] # NaN => Found!PeerMean(rows, name, k) \in Int
<1> DEFINE column == Found!Column(rows, name)
           peers == Found!PeersIn(rows, k)
           known == Found!Known(column, peers)
<1>1. peers \in SUBSET DOMAIN rows /\ known = {j \in peers : column[j] # NaN} /\ k \in peers
  BY DEF Found!PeersIn, Found!Known
<1>2. \A j \in DOMAIN rows : column[j] = rows[j][name]
  BY DEF Found!Column
<1>3. Found!PeerMean(rows, name, k) = Found!Average(column, known)
  BY DEF Found!PeerMean
<1> HIDE DEF column, peers, known
<1>4. IsFiniteSet(known)
  BY <1>1, FS_Subset DEF RowsTyped
<1>5. Numeric(column, known)
  BY <1>1, <1>2 DEF Numeric, RowsTyped, Numbers
<1>6. rows[k][name] # NaN => known # {}
  BY <1>1, <1>2
<1> QED BY <1>3, <1>4, <1>5, <1>6, AverageType

\* The return of a benchmark after a day is a number or missing.
LEMMA ForwardType ==
  ASSUME NEW file \in Seq([day : Int, value : Numbers]), NEW d, NEW horizon \in Nat
  PROVE  Found!Forward(file, d, horizon) \in Numbers
<1> DEFINE at == {n \in DOMAIN file : file[n].day = d /\ n + horizon <= Len(file)}
           window(n) == [i \in (n + 1)..(n + horizon) |-> file[i].value]
           whole == {n \in at : NaN \notin Range(window(n))}
           n == Found!Max(whole)
<1>1. Found!Forward(file, d, horizon) =
        IF whole = {} THEN NaN ELSE SumFunctionOnSet(window(n), DOMAIN window(n))
  BY FoundOperators DEF Found!Forward
<1>2. CASE whole = {}
  BY <1>1, <1>2 DEF Numbers
<1>3. CASE whole # {}
  <2>1. /\ Len(file) \in Nat /\ DOMAIN file = 1..Len(file)
        /\ \A i \in 1..Len(file) : file[i].value \in Numbers
    <3>1. \A i \in 1..Len(file) : file[i] \in [day : Int, value : Numbers]
      BY ElementOfSeq
    <3> QED BY <3>1, LenProperties
  <2>2. whole \in SUBSET (1..Len(file))
    BY <2>1
  <2>3. IsFiniteSet(whole) /\ whole \in SUBSET Int
    <3>1. IsFiniteSet(1..Len(file)) /\ 1..Len(file) \subseteq Int
      BY <2>1, FS_Interval
    <3> HIDE DEF whole
    <3> QED BY <2>2, <3>1, FS_Subset
  <2>4. n \in whole
    <3> HIDE DEF whole
    <3> QED BY <1>3, <2>3, EndsType
  <2> HIDE DEF n
  <2>5. n \in 1..Len(file) /\ n + horizon <= Len(file) /\ NaN \notin Range(window(n))
    BY <2>1, <2>4
  <2>6. ASSUME NEW i \in (n + 1)..(n + horizon) PROVE window(n)[i] \in Int
    BY <2>1, <2>5 DEF Range, Numbers
  <2>7. DOMAIN window(n) = (n + 1)..(n + horizon) /\ IsFiniteSet(DOMAIN window(n))
    BY <2>1, <2>5, FS_Interval
  <2> HIDE DEF window
  <2> QED BY <1>1, <1>3, <2>6, <2>7, SumInt DEF Numbers, n
<1> QED BY <1>2, <1>3

\* A label in the space of a run is a number or missing.
LEMMA InSpaceType ==
  ASSUME NEW rows, RowsTyped(rows), NEW run, RunOk(run), NEW k \in DOMAIN rows
  PROVE  Found!InSpace(rows, run, k) \in Numbers
<1> DEFINE label == rows[k].label
           excess == Found!PeerMean(rows, "label", k)
           market == Found!Benchmark(rows, run, k[1])
           reference == CASE run.space = "raw_return" -> 0
                          [] run.space = "industry_excess" ->
                               IF rows[k].industry = None THEN NaN ELSE excess
                          [] run.space = "benchmark_excess" -> market
<1>1. Found!InSpace(rows, run, k) =
        IF NaN \in {label, reference} THEN NaN
        ELSE IF run.space = "raw_return" THEN label ELSE label - reference - run.threshold
  BY DEF Found!InSpace
<1>2. label \in Numbers
  BY DEF RowsTyped
<1>3. excess \in Numbers
  BY PeerMeanType
<1>4. market \in Numbers
  <2>1. CASE run.benchmark = None
    <3> DEFINE labels == Found!Column(rows, "label")
               known == Found!Known(labels, Found!OfDay(rows, k[1]))
    <3>1. /\ known \in SUBSET DOMAIN rows /\ \A j \in known : labels[j] = rows[j].label /\ labels[j] # NaN
      BY DEF Found!Known, Found!OfDay, Found!Column
    <3>2. market = Found!Average(labels, known)
      BY <2>1 DEF Found!Benchmark
    <3> HIDE DEF labels, known
    <3>3. IsFiniteSet(known) /\ Numeric(labels, known)
      BY <3>1, FS_Subset DEF RowsTyped, Numeric, Numbers
    <3> QED BY <3>2, <3>3, AverageType
  <2>2. CASE run.benchmark # None
    BY <2>2, ForwardType DEF Found!Benchmark, RunOk
  <2> QED BY <2>1, <2>2
<1> HIDE DEF excess, market, label
<1>5. reference \in Numbers
  BY <1>3, <1>4 DEF RunOk, Numbers
<1> HIDE DEF reference
<1> QED BY <1>1, <1>2, <1>5 DEF Numbers, RunOk

\* A part of the rows.
LEMMA PartTyped ==
  ASSUME NEW rows, RowsTyped(rows), NEW S \in SUBSET DOMAIN rows
  PROVE  /\ RowsTyped(Restrict(rows, S)) /\ DOMAIN Restrict(rows, S) = S
         /\ \A k \in S : Restrict(rows, S)[k] = rows[k]
BY FS_Subset DEF Restrict, RowsTyped

\* The rows that are loaded and those of them that have a label.
Within(store, run) ==
  {k \in DOMAIN store : k[1] \in run.from..run.to /\ Found!Admits(run.universe, k[2], k[1])}
Relabelled(rows, run) ==
  [k \in DOMAIN rows |-> [rows[k] EXCEPT !.label = Found!InSpace(rows, run, k)]]
KeptRows(rows, run) == {k \in DOMAIN rows : Found!InSpace(rows, run, k) # NaN}

(***************************************************************************)
(* The rows of a run: those of its days and symbols, with the labels of    *)
(* its space, of which the missing ones are left out.                      *)
(***************************************************************************)
LEMMA RowsOfRun ==
  ASSUME NEW store, RowsTyped(store), NEW run, RunOk(run)
  PROVE  LET rows == Found!Loaded(store, run)
             kept == Restrict(Relabelled(rows, run), KeptRows(rows, run))
         IN  /\ rows = Restrict(store, Within(store, run)) /\ RowsTyped(rows)
             /\ Labelled(kept) /\ DOMAIN kept = KeptRows(rows, run)
             /\ Found!Examined(store, run) =
                  IF DOMAIN rows = {} THEN rows
                  ELSE IF ~Found!SpaceAvailable(rows, run) THEN <<>>
                  ELSE IF DOMAIN kept = {} \/ ~run.neutral THEN kept
                  ELSE IF \A k \in DOMAIN kept : kept[k].industry = None THEN <<>>
                  ELSE Found!Neutral(kept)
<1> DEFINE rows == Found!Loaded(store, run)
           labelled == Relabelled(rows, run)
           kept == Restrict(labelled, KeptRows(rows, run))
<1>1. rows = Restrict(store, Within(store, run))
  BY FoundOperators DEF Found!Loaded, Within
<1>2. RowsTyped(rows)
  BY <1>1, PartTyped DEF Within
<1>3. KeptRows(rows, run) = {k \in DOMAIN rows : labelled[k].label # NaN}
  <2>1. \A k \in DOMAIN rows : labelled[k].label = Found!InSpace(rows, run, k)
    <3> HIDE DEF rows
    <3> QED BY <1>2 DEF Relabelled, RowsTyped
  <2> HIDE DEF labelled, rows
  <2> QED BY <2>1 DEF KeptRows
<1>4. Found!Examined(store, run) =
        IF DOMAIN rows = {} THEN rows
        ELSE IF ~Found!SpaceAvailable(rows, run) THEN <<>>
        ELSE IF DOMAIN kept = {} \/ ~run.neutral THEN kept
        ELSE IF \A k \in DOMAIN kept : kept[k].industry = None THEN <<>>
        ELSE Found!Neutral(kept)
  BY <1>3, FoundOperators DEF Relabelled, Found!Examined
<1> HIDE DEF rows
<1>5. RowsTyped(labelled) /\ DOMAIN labelled = DOMAIN rows
  <2>1. ASSUME NEW k \in DOMAIN rows
        PROVE  /\ k[1] \in Int /\ DOMAIN labelled[k] = {"label", "x", "industry"}
               /\ labelled[k].label \in Numbers /\ labelled[k].x \in Numbers
    BY <1>2, InSpaceType DEF Relabelled, RowsTyped
  <2>2. DOMAIN labelled = DOMAIN rows
    BY DEF Relabelled
  <2> HIDE DEF labelled
  <2> QED BY <1>2, <2>1, <2>2 DEF RowsTyped
<1>6. Labelled(kept) /\ DOMAIN kept = KeptRows(rows, run)
  <2>1. KeptRows(rows, run) \in SUBSET DOMAIN labelled
    BY <1>5 DEF KeptRows
  <2>2. \A k \in KeptRows(rows, run) : labelled[k].label # NaN
    BY <1>3
  <2> HIDE DEF labelled
  <2>3. /\ RowsTyped(kept) /\ DOMAIN kept = KeptRows(rows, run)
        /\ \A k \in KeptRows(rows, run) : kept[k] = labelled[k]
    BY <1>5, <2>1, PartTyped
  <2> HIDE DEF kept
  <2> QED BY <2>2, <2>3 DEF Labelled, RowsTyped, Numbers
<1> QED BY <1>1, <1>2, <1>4, <1>6 DEF rows

\* Without the means of industries rows are rows.
LEMMA NeutralTyped ==
  ASSUME NEW rows, Labelled(rows)
  PROVE  Labelled(Found!Neutral(rows)) /\ DOMAIN Found!Neutral(rows) = DOMAIN rows
<1> DEFINE neutral == Found!Neutral(rows)
<1>1. RowsTyped(rows) /\ \A k \in DOMAIN rows : rows[k].label \in Int
  BY DEF Labelled
<1>2. ASSUME NEW k \in DOMAIN rows
      PROVE  neutral[k] = IF rows[k].industry = None \/ rows[k].x = NaN THEN rows[k]
                          ELSE [rows[k] EXCEPT !.x = @ - Found!PeerMean(rows, "x", k)]
  BY DEF Found!Neutral
<1>3. DOMAIN neutral = DOMAIN rows
  BY DEF Found!Neutral
<1> HIDE DEF neutral
<1>4. ASSUME NEW k \in DOMAIN rows
      PROVE  /\ DOMAIN neutral[k] = {"label", "x", "industry"}
             /\ neutral[k].label \in Int /\ neutral[k].x \in Numbers
  <2>1. CASE rows[k].industry = None \/ rows[k].x = NaN
    BY <1>1, <1>2, <2>1 DEF RowsTyped
  <2>2. CASE ~(rows[k].industry = None \/ rows[k].x = NaN)
    <3>1. Found!PeerMean(rows, "x", k) \in Int /\ rows[k].x \in Int
      BY <1>1, <2>2, PeerMeanType DEF RowsTyped, Numbers
    <3>2. neutral[k] = [rows[k] EXCEPT !.x = rows[k].x - Found!PeerMean(rows, "x", k)]
      BY <1>2, <2>2
    <3>3. rows[k].x - Found!PeerMean(rows, "x", k) \in Int
      BY <3>1
    <3> QED BY <1>1, <3>2, <3>3 DEF RowsTyped, Numbers
  <2> QED BY <2>1, <2>2
<1>5. RowsTyped(neutral)
  BY <1>1, <1>3, <1>4 DEF RowsTyped, Numbers
<1> QED BY <1>3, <1>4, <1>5 DEF neutral, Labelled

\* The rows a run looks at all have a label.
LEMMA ExaminedTyped ==
  ASSUME NEW store, RowsTyped(store), NEW run, RunOk(run)
  PROVE  Labelled(Found!Examined(store, run))
<1> DEFINE rows == Found!Loaded(store, run)
           kept == Restrict(Relabelled(rows, run), KeptRows(rows, run))
           found == Found!Examined(store, run)
<1>1. /\ RowsTyped(rows) /\ Labelled(kept)
      /\ found \in {rows, <<>>, kept, Found!Neutral(kept)}
      /\ found = rows => DOMAIN rows = {} \/ found \in {kept, Found!Neutral(kept)}
  BY RowsOfRun DEF found, rows, kept
<1>2. Labelled(Found!Neutral(kept))
  BY <1>1, NeutralTyped
<1> HIDE DEF found, rows, kept
<1>3. Labelled(<<>>)
  BY FS_EmptySet DEF Labelled, RowsTyped
<1>4. Labelled(found)
  BY <1>1, <1>2, <1>3 DEF Labelled
<1> QED BY <1>4 DEF found

\* A summary of which every number is one or is missing.
SummaryOk(s) == /\ s.coverage \in Numbers /\ s.rankIc \in Numbers /\ s.rankIr \in Numbers
                /\ s.hit \in Numbers /\ s.monthlyPositive \in Numbers /\ s.monotonicity \in Numbers

\* What some days say of the rows.
DailyOf(rows, days, bins) == {Found!Daily(rows, d, bins) : d \in days}

\* Rows are of finitely many days, and some of them have a summary.
LEMMA DaysSummarised ==
  ASSUME NEW rows, RowsTyped(rows), NEW bins
  PROVE  /\ IsFiniteSet(Found!DaysOf(rows)) /\ Found!DaysOf(rows) \subseteq Int
         /\ \A days \in SUBSET Found!DaysOf(rows) :
              /\ IsFiniteSet(DailyOf(rows, days, bins))
              /\ \A r \in DailyOf(rows, days, bins) : DayOk(r)
              /\ SummaryOk(Found!Summary(DailyOf(rows, days, bins)))
<1> DEFINE day == [k \in DOMAIN rows |-> k[1]]
           all == Found!DaysOf(rows)
<1>1. all = {day[k] : k \in DOMAIN rows}
  BY DEF Found!DaysOf
<1>2. \A k \in DOMAIN rows : day[k] \in Int
  BY DEF RowsTyped
<1> HIDE DEF day, all
<1>3. IsFiniteSet(all) /\ all \subseteq Int
  BY <1>1, <1>2, KeysFinite DEF RowsTyped
<1>4. ASSUME NEW days \in SUBSET all
      PROVE  /\ IsFiniteSet(DailyOf(rows, days, bins))
             /\ \A r \in DailyOf(rows, days, bins) : DayOk(r)
             /\ SummaryOk(Found!Summary(DailyOf(rows, days, bins)))
  <2> DEFINE of == [d \in days |-> Found!Daily(rows, d, bins)]
             daily == DailyOf(rows, days, bins)
  <2>1. daily = {of[d] : d \in days}
    BY DEF DailyOf
  <2>2. IsFiniteSet(days)
    BY <1>3, FS_Subset
  <2>3. \A r \in daily : DayOk(r)
    BY DailyType DEF DailyOf
  <2> HIDE DEF daily, of
  <2>4. IsFiniteSet(daily)
    BY <2>1, <2>2, KeysFinite
  <2>5. SummaryOk(Found!Summary(daily))
    BY <2>3, <2>4, SummaryType DEF SummaryOk
  <2> QED BY <2>3, <2>4, <2>5 DEF daily
<1> QED BY <1>3, <1>4 DEF all

\* What segments have in common are numbers or missing.
LEMMA ComparisonType ==
  ASSUME NEW summaries, IsFiniteSet(DOMAIN summaries),
         \A n \in DOMAIN summaries : summaries[n] # None => SummaryOk(summaries[n])
  PROVE  LET c == Found!Comparison(summaries)
         IN  c.hitMean \in Numbers /\ c.range \in Numbers /\ c.absMax \in Numbers
<1> DEFINE listed == {n \in DOMAIN summaries : summaries[n] # None}
           rank == [n \in listed |-> summaries[n].rankIc]
           hit == [n \in listed |-> summaries[n].hit]
           known == Found!Known(rank, listed)
           ranked == {rank[n] : n \in known}
           size == [a \in ranked |-> Found!Magnitude(a)]
           sizes == {Found!Magnitude(a) : a \in ranked}
           hits == Found!Known(hit, listed)
           c == Found!Comparison(summaries)
<1>1. /\ c.range = IF ranked = {} THEN NaN ELSE Found!Max(ranked) - Found!Min(ranked)
      /\ c.absMax = IF ranked = {} THEN NaN ELSE Found!Max(sizes)
      /\ c.hitMean = Found!Average(hit, hits)
  BY DEF Found!Comparison
<1>2. \A n \in listed : rank[n] \in Numbers /\ hit[n] \in Numbers
  BY DEF SummaryOk
<1>3. /\ listed \in SUBSET DOMAIN summaries
      /\ known = {n \in listed : rank[n] # NaN} /\ hits = {n \in listed : hit[n] # NaN}
  BY DEF Found!Known
<1>4. ranked = {rank[n] : n \in known} /\ sizes = {size[a] : a \in ranked}
      /\ \A a \in ranked : size[a] = Found!Magnitude(a)
  OBVIOUS
<1> HIDE DEF c, listed, rank, hit, known, ranked, size, sizes, hits
<1>5. /\ IsFiniteSet(known) /\ IsFiniteSet(hits)
      /\ (\A n \in known : rank[n] \in Int) /\ Numeric(hit, hits)
  BY <1>2, <1>3, FS_Subset DEF Numbers, Numeric
<1>6. IsFiniteSet(ranked) /\ \A a \in ranked : a \in Int
  BY <1>4, <1>5, KeysFinite
<1>7. IsFiniteSet(sizes) /\ \A a \in sizes : a \in Int
  BY <1>4, <1>6, MagnitudeType, SentinelAssumption, KeysFinite DEF Numbers
<1>8. c.hitMean \in Numbers
  BY <1>1, <1>5, AverageType
<1>9. CASE ranked = {}
  BY <1>1, <1>8, <1>9 DEF c, Numbers
<1>10. CASE ranked # {}
  <2>1. Found!Max(ranked) \in Int /\ Found!Min(ranked) \in Int /\ Found!Max(sizes) \in Int
    BY <1>4, <1>6, <1>7, <1>10, EndsType
  <2> QED BY <1>1, <1>8, <1>10, <2>1 DEF c, Numbers
<1> QED BY <1>9, <1>10

\* The files of rows with labels have numbers or say that they are missing.
LEMMA FilesType ==
  ASSUME NEW rows, Labelled(rows), DOMAIN rows # {}, NEW run, IsFiniteSet(DOMAIN run.segments)
  PROVE  LET e == Found!Files(rows, run)
         IN  /\ SummaryOk(e.summary)
             /\ e.comparison.hitMean \in Numbers /\ e.comparison.range \in Numbers
             /\ e.comparison.absMax \in Numbers
<1> DEFINE bins == Found!Upper(run.bins, 2)
           summaries == [n \in DOMAIN run.segments |-> Found!SegmentSummary(rows, run.segments[n], bins)]
           e == Found!Files(rows, run)
<1>1. /\ e.summary = Found!Summary(DailyOf(rows, Found!DaysOf(rows), bins))
      /\ e.comparison = Found!Comparison(summaries)
  BY DEF Found!Files, DailyOf
<1>2. RowsTyped(rows)
  BY DEF Labelled
<1> HIDE DEF bins, e
<1>3. ASSUME NEW n \in DOMAIN run.segments, summaries[n] # None
      PROVE  SummaryOk(summaries[n])
  BY <1>2, <1>3, DaysSummarised DEF Found!SegmentSummary, DailyOf
<1>4. DOMAIN summaries = DOMAIN run.segments
  OBVIOUS
<1> HIDE DEF summaries
<1>5. /\ e.comparison.hitMean \in Numbers /\ e.comparison.range \in Numbers
      /\ e.comparison.absMax \in Numbers
  BY <1>1, <1>3, <1>4, ComparisonType
<1> QED BY <1>1, <1>2, <1>5, DaysSummarised DEF e

\* A row made of such files can be filtered and ranked.
LEMMA SummaryRowType ==
  ASSUME NEW store, RowsTyped(store), NEW run, RunOk(run), IsFiniteSet(DOMAIN run.segments),
         ~(run.from > run.to), DOMAIN Found!Examined(store, run) # {},
         NEW name \in Int, NEW prefix \in Int, NEW withSegments \in BOOLEAN
  PROVE  LET r == Found!SummaryRow(name, prefix, Found!Evidence(store, run), withSegments)
         IN  RowOk(r) /\ r.name = name
BY ExaminedTyped, FilesType DEF Found!Evidence, Found!SummaryRow, RowOk,
   SummaryOk, Numbers

-----------------------------------------------------------------------------
(* What the robust selection lets pass.                                    *)

\* Thresholds are numbers; those on segments may be missing.
LimitsOk(limits) ==
  /\ limits.coverage \in Int /\ limits.rankIc \in Int /\ limits.rankIr \in Int /\ limits.hit \in Int
  /\ limits.segHit \in Int \cup {None} /\ limits.segRange \in Int \cup {None}

\* The worse of two numbers fails a threshold that either fails.
LEMMA WorseFails ==
  ASSUME NEW a \in Numbers, NEW b \in Numbers, NEW l \in Int
  PROVE  /\ Found!MinKnown(a, b) \in Numbers /\ Found!MaxKnown(a, b) \in Numbers
         /\ Found!Below(a, l) \/ Found!Below(b, l) => Found!Below(Found!MinKnown(a, b), l)
         /\ Found!Below(l, a) \/ Found!Below(l, b) => Found!Below(l, Found!MaxKnown(a, b))
BY SentinelAssumption DEF Numbers, Found!MinKnown, Found!MaxKnown, Found!Below, Found!Lower, Found!Upper

\* So does the smaller of two sizes, with any sign or none.
LEMMA SmallerFails ==
  ASSUME NEW a \in Numbers, NEW b \in Numbers, NEW l \in Int, NEW direction \in {-1, 0, 1}
  PROVE  LET m == Found!MinKnown(Found!Magnitude(a), Found!Magnitude(b))
             s == Found!Signed(direction, m)
         IN  /\ s \in Numbers
             /\ Found!Below(Found!Magnitude(a), l) \/ Found!Below(Found!Magnitude(b), l) =>
                  Found!Below(Found!Magnitude(s), l)
<1> DEFINE p == Found!Magnitude(a)
           q == Found!Magnitude(b)
           m == Found!MinKnown(p, q)
           s == Found!Signed(direction, m)
<1>1. p \in Nat \cup {NaN} /\ q \in Nat \cup {NaN} /\ p \in Numbers /\ q \in Numbers
  BY MagnitudeType
<1> HIDE DEF p, q
<1>2. /\ m \in Nat \cup {NaN}
      /\ Found!Below(p, l) \/ Found!Below(q, l) => Found!Below(m, l)
  BY <1>1, SentinelAssumption DEF Found!MinKnown, Found!Below, Found!Lower
<1> HIDE DEF m
<1>3. s = IF m = NaN THEN NaN ELSE direction * m
  BY DEF Found!Signed
<1>4. m # NaN => direction * m \in Int /\ direction * m \in {m, -m, 0}
  BY <1>2
<1> HIDE DEF s
<1>5. s \in Numbers /\ (m # NaN => s \in {m, -m, 0}) /\ (m = NaN => s = NaN)
  BY <1>3, <1>4 DEF Numbers
<1>6. Found!Below(m, l) => Found!Below(Found!Magnitude(s), l)
  <2>1. ASSUME Found!Below(m, l) PROVE Found!Below(Found!Magnitude(s), l)
    BY <1>2, <1>5, <2>1, SentinelAssumption, MagnitudeType DEF Found!Below,
       Numbers
  <2> QED BY <2>1
<1> QED BY <1>2, <1>5, <1>6 DEF p, q, m, s

(***************************************************************************)
(* The row of both summaries of a factor is a row, and passes nothing that *)
(* one of them fails.                                                      *)
(***************************************************************************)
LEMMA RobustFails ==
  ASSUME NEW r, NEW n, RowOk(r), RowOk(n), NEW limits, LimitsOk(limits)
  PROVE  LET q == Found!RobustRow(r, n)
         IN  /\ RowOk(q) /\ q.name = r.name
             /\ Found!Passes(q, limits) => Found!Passes(r, limits) /\ Found!Passes(n, limits)
<1> DEFINE consistent == Found!Sign(r.rankIc) = Found!Sign(n.rankIc) /\ Found!Sign(r.rankIc) # 0
           direction == IF consistent THEN Found!Sign(r.rankIc) ELSE 0
           sized(a, b) == Found!Signed(direction, Found!MinKnown(Found!Magnitude(a), Found!Magnitude(b)))
           q == Found!RobustRow(r, n)
<1>1. direction \in {-1, 0, 1}
  BY DEF Found!Sign
<1>2. /\ q.name = r.name /\ q.prefix = r.prefix
      /\ (q.flip <=> (r.flip \/ n.flip \/ ~consistent))
      /\ q.coverage = Found!MinKnown(r.coverage, n.coverage)
      /\ q.hit = Found!MinKnown(r.hit, n.hit)
      /\ q.monthlyPositive = Found!MinKnown(r.monthlyPositive, n.monthlyPositive)
      /\ q.segHit = Found!MinKnown(r.segHit, n.segHit)
      /\ q.segAbsMax = Found!MinKnown(r.segAbsMax, n.segAbsMax)
      /\ q.segRange = Found!MaxKnown(r.segRange, n.segRange)
      /\ q.rankIc = sized(r.rankIc, n.rankIc) /\ q.rankIr = sized(r.rankIr, n.rankIr)
      /\ q.monotonicity = sized(r.monotonicity, n.monotonicity)
  BY DEF Found!RobustRow, Found!RateOfBoth
<1> HIDE DEF consistent, direction, q
<1>3. RowOk(q)
  <2>1. \A a, b \in Numbers : sized(a, b) \in Numbers
    BY <1>1, SmallerFails
  <2> HIDE DEF sized
  <2>2. \A a, b \in Numbers : Found!MinKnown(a, b) \in Numbers /\ Found!MaxKnown(a, b) \in Numbers
    BY WorseFails
  <2> QED BY <1>2, <2>1, <2>2 DEF RowOk
<1>4. \A a, b \in Numbers, l \in Int :
        /\ Found!Below(a, l) \/ Found!Below(b, l) => Found!Below(Found!MinKnown(a, b), l)
        /\ Found!Below(l, a) \/ Found!Below(l, b) => Found!Below(l, Found!MaxKnown(a, b))
  BY WorseFails
<1>5. \A a, b \in Numbers, l \in Int :
        Found!Below(Found!Magnitude(a), l) \/ Found!Below(Found!Magnitude(b), l) =>
          Found!Below(Found!Magnitude(sized(a, b)), l)
  BY <1>1, SmallerFails
<1> HIDE DEF sized
<1>6. ASSUME Found!Passes(q, limits)
      PROVE  Found!Passes(r, limits) /\ Found!Passes(n, limits)
  <2>1. ~Found!Below(r.coverage, limits.coverage) /\ ~Found!Below(n.coverage, limits.coverage)
    BY <1>2, <1>4, <1>6 DEF Found!Passes, RowOk, LimitsOk
  <2>2. ~Found!Below(r.hit, limits.hit) /\ ~Found!Below(n.hit, limits.hit)
    BY <1>2, <1>4, <1>6 DEF Found!Passes, RowOk, LimitsOk
  <2>3. limits.segHit # None => ~Found!Below(r.segHit, limits.segHit) /\ ~Found!Below(n.segHit, limits.segHit)
    BY <1>2, <1>4, <1>6 DEF Found!Passes, RowOk, LimitsOk
  <2>4. limits.segRange # None =>
          ~Found!Below(limits.segRange, r.segRange) /\ ~Found!Below(limits.segRange, n.segRange)
    BY <1>2, <1>4, <1>6 DEF Found!Passes, RowOk, LimitsOk
  <2>5. ASSUME NEW s \in {r, n},
               Found!Below(Found!Magnitude(s.rankIc), limits.rankIc),
               Found!Below(Found!Magnitude(s.rankIr), limits.rankIr)
        PROVE  FALSE
    BY <1>2, <1>5, <1>6, <2>5 DEF RowOk, LimitsOk, Found!Passes
  <2> QED BY <1>2, <1>6, <2>1, <2>2, <2>3, <2>4, <2>5 DEF Found!Passes
<1> QED BY <1>2, <1>3, <1>6 DEF q

(***************************************************************************)
(* The robust summary of two summaries that have a factor in common has a  *)
(* row of each such factor; what passes of it passes of both, whatever is  *)
(* missing (build_robust_feature_summary, passes_prefilter).               *)
(***************************************************************************)
THEOREM RobustOfBoth ==
  ASSUME NEW plain, RowsOk(plain), NEW neutral, RowsOk(neutral),
         \E r \in plain, n \in neutral : n.name = r.name,
         NEW limits, LimitsOk(limits)
  PROVE  LET robust == Found!RobustSummary(plain, neutral)
         IN  /\ RowsOk(robust)
             /\ NamesOf(Found!Prefiltered(robust, limits))
                  \subseteq NamesOf(Found!Prefiltered(plain, limits))
                              \cap NamesOf(Found!Prefiltered(neutral, limits))
<1> DEFINE both == {r \in plain : \E n \in neutral : n.name = r.name}
           other(r) == CHOOSE n \in neutral : n.name = r.name
           row == [r \in both |-> Found!RobustRow(r, other(r))]
           robust == Found!RobustSummary(plain, neutral)
<1>1. both # {} /\ both \in SUBSET plain
  OBVIOUS
<1>2. robust = {row[r] : r \in both}
  BY <1>1, ZenonT(40) DEF Found!RobustSummary
<1>3. ASSUME NEW r \in both
      PROVE  /\ RowOk(r) /\ other(r) \in neutral /\ RowOk(other(r)) /\ other(r).name = r.name
             /\ RowOk(row[r]) /\ row[r].name = r.name
             /\ Found!Passes(row[r], limits) =>
                  Found!Passes(r, limits) /\ Found!Passes(other(r), limits)
  <2>1. other(r) \in neutral /\ other(r).name = r.name
    OBVIOUS
  <2>2. row[r] = Found!RobustRow(r, other(r))
    OBVIOUS
  <2> HIDE DEF other, row
  <2>3. RowOk(r) /\ RowOk(other(r))
    BY <1>1, <2>1 DEF RowsOk
  <2> QED BY <2>1, <2>2, <2>3, RobustFails
<1> HIDE DEF both, row, robust, other
<1>4. IsFiniteSet(robust)
  <2>1. IsFiniteSet(both)
    BY <1>1, FS_Subset DEF RowsOk
  <2> QED BY <1>2, <2>1, KeysFinite
<1>5. \A a, b \in robust : a.name = b.name => a = b
  BY <1>1, <1>2, <1>3 DEF RowsOk
<1>6. RowsOk(robust)
  BY <1>2, <1>3, <1>4, <1>5 DEF RowsOk
<1>7. ASSUME NEW a \in NamesOf(Found!Prefiltered(robust, limits))
      PROVE  /\ a \in NamesOf(Found!Prefiltered(plain, limits))
             /\ a \in NamesOf(Found!Prefiltered(neutral, limits))
  <2>1. PICK q \in robust : Found!Passes(q, limits) /\ q.name = a
    BY DEF NamesOf, Found!Prefiltered
  <2>2. PICK r \in both : q = row[r]
    BY <1>2
  <2>3. /\ r \in plain /\ Found!Passes(r, limits) /\ r.name = a
        /\ other(r) \in neutral /\ Found!Passes(other(r), limits) /\ other(r).name = a
    BY <1>1, <1>3, <2>1, <2>2
  <2> QED BY <2>3 DEF NamesOf, Found!Prefiltered
<1> QED BY <1>6, <1>7 DEF robust

-----------------------------------------------------------------------------
(* The selection: duplicates and columns that are alike.                   *)

\* A column of finitely many cells.
CellsOk(f) == IsFiniteSet(DOMAIN f) /\ \A k \in DOMAIN f : f[k] \in Numbers

\* Ranks as shares are a column again.
LEMMA PercentileType ==
  ASSUME NEW f, CellsOk(f)
  PROVE  CellsOk(Found!Percentile(f))
<1> DEFINE p == Found!Percentile(f)
<1>1. ASSUME NEW k \in DOMAIN f, f[k] # NaN
      PROVE  p[k] \in Numbers
  <2> DEFINE day == Found!Known(f, {j \in DOMAIN f : j[1] = k[1]})
  <2>1. p[k] = (6 * Found!Ranks(f, day)[k]) \div Cardinality(day)
    BY <1>1, FoundOperators DEF Found!Percentile
  <2>2. day \in SUBSET DOMAIN f /\ k \in day
    BY <1>1 DEF Found!Known
  <2> HIDE DEF day, p
  <2>3. IsFiniteSet(day)
    BY <2>2, FS_Subset DEF CellsOk
  <2>4. Cardinality(day) \in Nat \ {0}
    BY <2>2, <2>3, FS_CardinalityType, FS_EmptySet
  <2>5. 6 * Found!Ranks(f, day)[k] \in Int
    BY <2>2, <2>3, RanksType DEF Numeric
  <2> QED BY <2>1, <2>4, <2>5, Quotient DEF Numbers
<1>2. ASSUME NEW k \in DOMAIN f, f[k] = NaN
      PROVE  p[k] \in Numbers
  BY <1>2 DEF Found!Percentile, Numbers
<1>3. DOMAIN p = DOMAIN f
  BY DEF Found!Percentile
<1> HIDE DEF p
<1>4. CellsOk(p)
  BY <1>1, <1>2, <1>3 DEF CellsOk
<1> QED BY <1>4 DEF p

\* The likeness of two factors is a number or missing, and mutual.
LEMMA LikenessType ==
  ASSUME NEW columns, NEW inRanks, NEW r, NEW q,
         CellsOk(columns[r.name]), CellsOk(columns[q.name])
  PROVE  /\ Found!Likeness(columns, inRanks, r, q) \in Numbers
         /\ Found!Likeness(columns, inRanks, r, q) = Found!Likeness(columns, inRanks, q, r)
<1> DEFINE column(n) == IF inRanks THEN Found!Percentile(columns[n]) ELSE columns[n]
           f == column(r.name)
           g == column(q.name)
           known(h) == Found!Known(h, DOMAIN h)
           S == known(f) \cap known(g)
<1>1. CellsOk(f) /\ CellsOk(g)
  BY PercentileType
<1>2. /\ Found!Likeness(columns, inRanks, r, q) = Found!Magnitude(Found!Correlation(f, g, S))
      /\ Found!Likeness(columns, inRanks, q, r) = Found!Magnitude(Found!Correlation(g, f, known(g) \cap known(f)))
  BY DEF Found!Likeness
<1>3. known(g) \cap known(f) = S
  OBVIOUS
<1>4. S \in SUBSET DOMAIN f /\ S \in SUBSET DOMAIN g /\ \A k \in S : f[k] # NaN /\ g[k] # NaN
  BY DEF Found!Known
<1> HIDE DEF f, g, S, known
<1>5. IsFiniteSet(S) /\ Numeric(f, S) /\ Numeric(g, S)
  BY <1>1, <1>4, FS_Subset DEF CellsOk, Numeric, Numbers
<1>6. Found!Correlation(f, g, S) \in Numbers /\ Found!Correlation(f, g, S) = Found!Correlation(g, f, S)
  BY <1>5, CorrelationType
<1> QED BY <1>2, <1>3, <1>6, MagnitudeType

\* Being like a factor that stayed is being like it either way.
LEMMA AlikeIsLike ==
  ASSUME NEW columns, NEW r, NEW q, CellsOk(columns[r.name]), CellsOk(columns[q.name]),
         case.choice.maxCorr \in Int
  PROVE  /\ Found!Alike(columns, case.choice.inRanks, q, r, case.choice.maxCorr) <=> Like(columns, q, r)
         /\ Like(columns, q, r) <=> Like(columns, r, q)
BY LikenessType, SentinelAssumption DEF Found!Alike, Like, Numbers, Found!Below

\* Two factors of a group of duplicates.
Duplicated(q, r) == \E g \in case.choice.groups : {q.name, r.name} \subseteq g

\* The ranking without duplicates, and of it those that are not alike.
KeptOf(passing) == Found!WithoutDuplicates(Found!Ranked(passing), case.choice.groups)
SelectedOf(passing, columns) ==
  Found!Pruned(KeptOf(passing), columns, case.choice.inRanks, case.choice.maxCorr)

(***************************************************************************)
(* Of the ranked factors no two that stay are duplicates, they are in the  *)
(* order of the ranking, and one that goes has a better duplicate.         *)
(***************************************************************************)
LEMMA KeptAreBest ==
  ASSUME NEW passing, RowsOk(passing)
  PROVE  LET s == KeptOf(passing)
         IN  /\ s \in Seq(passing)
             /\ \A m, n \in DOMAIN s : m < n => Found!Better(s[m], s[n]) /\ ~Duplicated(s[m], s[n])
             /\ \A r \in passing \ Range(s) : \E q \in passing : Found!Better(q, r) /\ Duplicated(q, r)
<1> DEFINE list == Found!Ranked(passing)
           twins == {p \in passing \X passing : Duplicated(p[1], p[2])}
           s == KeptOf(passing)
<1>1. /\ list \in Seq(passing) /\ Range(list) = passing
      /\ \A m, n \in DOMAIN list : m < n => Found!Better(list[m], list[n])
  BY RankingLists
<1>2. s = Found!Surviving(list, twins)
  BY <1>1, FoundOperators DEF KeptOf, Found!WithoutDuplicates, Duplicated
<1> HIDE DEF list, s, twins
<1>3. Stayed(s, Len(list), list, twins)
  BY <1>1, <1>2, SurvivingStays
<1>4. DOMAIN list = 1..Len(list) /\ Len(list) \in Nat
  BY <1>1, LenProperties
<1>5. \A q, r \in passing : <<q, r>> \in twins <=> Duplicated(q, r)
  BY DEF twins
<1>6. s \in Seq(passing) /\ \A n \in DOMAIN s : s[n] \in passing
  BY <1>1, <1>3 DEF Stayed
<1>7. ASSUME NEW m \in DOMAIN s, NEW n \in DOMAIN s, m < n
      PROVE  Found!Better(s[m], s[n]) /\ ~Duplicated(s[m], s[n])
  <2>1. Comes(s[m], s[n], list) /\ <<s[m], s[n]>> \notin twins
    BY <1>3, <1>7 DEF Follows, Stayed, InOrder
  <2> QED BY <1>1, <1>5, <1>6, <2>1 DEF Comes
<1>8. ASSUME NEW r \in passing \ Range(s)
      PROVE  \E q \in passing : Found!Better(q, r) /\ Duplicated(q, r)
  <2>1. PICK n \in 1..Len(list) : r = list[n]
    BY <1>1, <1>4 DEF Range
  <2>2. PICK m \in 1..(n - 1) : <<list[m], list[n]>> \in twins
    BY <1>3, <2>1 DEF Stayed
  <2>3. m \in DOMAIN list /\ n \in DOMAIN list /\ m < n
    BY <1>4
  <2>4. list[m] \in passing
    BY <1>1, <2>3
  <2> QED BY <1>1, <1>5, <2>1, <2>2, <2>3, <2>4
<1> QED BY <1>6, <1>7, <1>8 DEF s

(***************************************************************************)
(* Of those no two that are selected are alike, and one that goes has a    *)
(* better one that it is like.                                             *)
(***************************************************************************)
LEMMA SelectedAreBest ==
  ASSUME NEW passing, RowsOk(passing), NEW columns,
         \A r \in passing : CellsOk(columns[r.name]), case.choice.maxCorr \in Int
  PROVE  LET s == SelectedOf(passing, columns)
         IN  /\ s \in Seq(passing)
             /\ \A m, n \in DOMAIN s : m < n => ~Replaces(columns, s[m], s[n])
             /\ \A r \in passing \ Range(s) :
                  \E q \in passing : Found!Better(q, r) /\ Replaces(columns, q, r)
<1> DEFINE list == KeptOf(passing)
           alike == {p \in Range(list) \X Range(list) :
                       Found!Alike(columns, case.choice.inRanks, p[1], p[2], case.choice.maxCorr)}
           s == SelectedOf(passing, columns)
<1>1. /\ list \in Seq(passing)
      /\ \A m, n \in DOMAIN list : m < n => Found!Better(list[m], list[n]) /\ ~Duplicated(list[m], list[n])
      /\ \A r \in passing \ Range(list) : \E q \in passing : Found!Better(q, r) /\ Duplicated(q, r)
  BY KeptAreBest
<1>2. s = Found!Surviving(list, alike)
  BY FoundOperators DEF SelectedOf, Found!Pruned
<1>3. \A q, r : Replaces(columns, q, r) <=> Duplicated(q, r) \/ Like(columns, q, r)
  BY DEF Replaces, Duplicated
<1> HIDE DEF list, s, alike
<1>4. DOMAIN list = 1..Len(list) /\ Len(list) \in Nat /\ Range(list) \subseteq passing
  BY <1>1, ElementOfSeq, LenProperties DEF Range
<1>5. \A q, r \in Range(list) : <<q, r>> \in alike <=> Like(columns, q, r)
  <2>1. ASSUME NEW q \in Range(list), NEW r \in Range(list)
        PROVE  <<q, r>> \in alike <=> Like(columns, q, r)
    BY <1>4, AlikeIsLike DEF alike
  <2> QED BY <2>1
<1>6. Stayed(s, Len(list), list, alike)
  BY <1>1, <1>2, SurvivingStays
<1>7. s \in Seq(Range(list)) /\ s \in Seq(passing) /\ \A n \in DOMAIN s : s[n] \in Range(list)
  BY <1>4, <1>6 DEF Stayed
<1>8. ASSUME NEW m \in DOMAIN s, NEW n \in DOMAIN s, m < n
      PROVE  ~Replaces(columns, s[m], s[n])
  <2>1. Comes(s[m], s[n], list) /\ <<s[m], s[n]>> \notin alike
    BY <1>6, <1>8 DEF Follows, Stayed, InOrder
  <2> QED BY <1>1, <1>3, <1>5, <1>7, <2>1 DEF Comes
<1>9. ASSUME NEW r \in passing \ Range(s)
      PROVE  \E q \in passing : Found!Better(q, r) /\ Replaces(columns, q, r)
  <2>1. CASE r \notin Range(list)
    BY <1>1, <1>3, <2>1
  <2>2. CASE r \in Range(list)
    <3>1. PICK n \in 1..Len(list) : r = list[n]
      BY <1>4, <2>2 DEF Range
    <3>2. PICK m \in 1..(n - 1) : <<list[m], list[n]>> \in alike
      BY <1>6, <3>1 DEF Stayed
    <3>3. m \in DOMAIN list /\ n \in DOMAIN list /\ m < n
      BY <1>4
    <3>4. list[m] \in Range(list) /\ list[n] \in Range(list)
      BY <3>3 DEF Range
    <3>5. Found!Better(list[m], r) /\ Like(columns, list[m], r)
      BY <1>1, <1>5, <3>1, <3>2, <3>3, <3>4
    <3> QED BY <1>3, <1>4, <3>4, <3>5
  <2> QED BY <2>1, <2>2
<1> QED BY <1>7, <1>8, <1>9 DEF s

(***************************************************************************)
(* A profile is the first of the selected factors, or all of them: for any *)
(* factors that pass, no two of it are duplicates or too much alike, and   *)
(* without a maximum a factor that is left out gave way to a better one    *)
(* (prune_correlated_rows).                                                *)
(***************************************************************************)
THEOREM ProfileJustified ==
  ASSUME NEW passing, RowsOk(passing), NEW columns,
         \A r \in passing : CellsOk(columns[r.name]), case.choice.maxCorr \in Int,
         case.choice.maxFeatures \in Nat \cup {None}
  PROVE  LET profile == Found!Limited(SelectedOf(passing, columns), case.choice.maxFeatures)
         IN  profile # None => Justifies(passing, columns, profile)
<1> DEFINE s == SelectedOf(passing, columns)
           k == IF case.choice.maxFeatures = None THEN Len(s)
                ELSE Found!Lower(case.choice.maxFeatures, Len(s))
           taken == SubSeq(s, 1, k)
           profile == Found!Limited(s, case.choice.maxFeatures)
<1>1. /\ s \in Seq(passing)
      /\ \A m, n \in DOMAIN s : m < n => ~Replaces(columns, s[m], s[n])
      /\ \A r \in passing \ Range(s) :
           \E q \in passing : Found!Better(q, r) /\ Replaces(columns, q, r)
  BY SelectedAreBest
<1>2. profile \in {None, taken}
  BY DEF Found!Limited
<1> HIDE DEF s
<1>3. Len(s) \in Nat /\ DOMAIN s = 1..Len(s) /\ k \in 0..Len(s)
  BY <1>1, LenProperties, SentinelAssumption DEF Found!Lower
<1>4. case.choice.maxFeatures = None => k = Len(s)
  OBVIOUS
<1> HIDE DEF k
<1>5. DOMAIN taken = 1..k /\ \A i \in 1..k : taken[i] = s[i]
  BY <1>1, <1>3, SubSeqMembers
<1> HIDE DEF taken, profile
<1>6. ASSUME NEW n \in DOMAIN taken, NEW m \in DOMAIN taken, n < m
      PROVE  ~Replaces(columns, taken[n], taken[m])
  BY <1>1, <1>3, <1>5, <1>6
<1>7. ASSUME case.choice.maxFeatures = None, NEW r \in passing \ Elements(taken)
      PROVE  \E q \in passing : Found!Better(q, r) /\ Replaces(columns, q, r)
  BY <1>1, <1>3, <1>4, <1>5, <1>7 DEF Elements, Range
<1>8. Justifies(passing, columns, taken)
  BY <1>6, <1>7 DEF Justifies
<1> QED BY <1>2, <1>8 DEF s, profile

-----------------------------------------------------------------------------
(* The segments of a range.                                                *)

\* A segment from a day to a day, and the lists they are made of.
SegmentOk(x) == x.from \in Int /\ x.to \in Int

YearOf(y, main) == Found!Clipped(<<"y", y>>, <<y * 3 + 1, (y + 1) * 3>>, main)
YearsOf(main) == [n \in 1..(Found!Year(main[2]) - Found!Year(main[1]) + 1) |->
                    YearOf(Found!Year(main[1]) + n - 1, main)]
PartsOf(time, main) ==
  [n \in DOMAIN Found!Splits |-> Found!Clipped(<<Found!Splits[n]>>, time[Found!Splits[n]], main)]
ClippedOf(time, scheme, main) == IF scheme = "yearly" THEN YearsOf(main) ELSE PartsOf(time, main)
ListOf(clipped, custom) == Kept(clipped, {x \in Range(clipped) : x.from <= x.to}) \o custom
Namesakes(list) == {p \in Range(list) \X Range(list) : p[1].name = p[2].name}

\* The segments of the schemes that make any.
LEMMA SegmentsAre ==
  ASSUME NEW time, NEW scheme \in {"yearly", "config_split"}, NEW custom, NEW main
  PROVE  LET list == ListOf(ClippedOf(time, scheme, main), custom)
         IN  Found!Segments(time, scheme, custom, main) = Found!Surviving(list, Namesakes(list))
BY FoundOperators DEF Found!Segments, YearsOf, YearOf, PartsOf, ClippedOf,
   ListOf, Namesakes

\* What is clipped to days is a segment.
LEMMA ClippedType ==
  ASSUME NEW name, NEW range, range[1] \in Int, range[2] \in Int,
         NEW main, main[1] \in Int, main[2] \in Int
  PROVE  /\ SegmentOk(Found!Clipped(name, range, main))
         /\ Found!Clipped(name, range, main).name = name
         /\ \A d \in Int :
              d \in Found!Clipped(name, range, main).from..Found!Clipped(name, range, main).to
                <=> d \in range[1]..range[2] /\ d \in main[1]..main[2]
BY DEF SegmentOk, Found!Clipped, Found!Upper, Found!Lower

\* The days of a configuration.
TimeOk(time) == \A n \in DOMAIN Found!Splits : LET days == time[Found!Splits[n]]
                                               IN  days[1] \in Int /\ days[2] \in Int
MainOk(main) == /\ main[1] \in Int /\ main[2] \in Int
                /\ Found!Year(main[2]) - Found!Year(main[1]) + 1 \in Nat

\* The list of a scheme is one of segments.
LEMMA ClippedListed ==
  ASSUME NEW time, TimeOk(time), NEW scheme, NEW main, MainOk(main)
  PROVE  LET clipped == ClippedOf(time, scheme, main)
         IN  /\ clipped \in Seq(Range(clipped)) /\ \A x \in Range(clipped) : SegmentOk(x)
             /\ scheme = "yearly" => clipped = YearsOf(main)
<1> DEFINE clipped == ClippedOf(time, scheme, main)
           size == Found!Year(main[2]) - Found!Year(main[1]) + 1
           y(n) == Found!Year(main[1]) + n - 1
<1>1. main[1] \in Int /\ main[2] \in Int /\ size \in Nat
  BY DEF MainOk
<1>2. CASE scheme = "yearly"
  <2>1. clipped = YearsOf(main)
    BY <1>2 DEF ClippedOf
  <2>2. clipped = [n \in 1..size |-> YearOf(y(n), main)]
    BY <2>1 DEF YearsOf
  <2>3. ASSUME NEW n \in 1..size PROVE SegmentOk(YearOf(y(n), main))
    BY <1>1, ClippedType DEF Found!Year, YearOf
  <2> HIDE DEF clipped, size, y
  <2>4. clipped \in [1..size -> Range(clipped)] /\ \A x \in Range(clipped) : SegmentOk(x)
    BY <2>2, <2>3 DEF Range
  <2> QED BY <1>1, <2>1, <2>4, FunctionIsSeq DEF clipped
<1>3. CASE scheme # "yearly"
  <2>1. clipped = [n \in 1..3 |-> Found!Clipped(<<Found!Splits[n]>>, time[Found!Splits[n]], main)]
    BY <1>3 DEF ClippedOf, PartsOf, Found!Splits
  <2>2. ASSUME NEW n \in 1..3
        PROVE  SegmentOk(Found!Clipped(<<Found!Splits[n]>>, time[Found!Splits[n]], main))
    BY <1>1, ClippedType DEF Found!Splits, TimeOk
  <2> HIDE DEF clipped
  <2>3. clipped \in [1..3 -> Range(clipped)] /\ \A x \in Range(clipped) : SegmentOk(x)
    BY <2>1, <2>2 DEF Range
  <2> QED BY <1>3, <2>3, FunctionIsSeq DEF clipped
<1> QED BY <1>2, <1>3

(***************************************************************************)
(* The segments of a scheme and of the user are segments, each of them     *)
(* listed and no two of one name; a name that is listed is there.          *)
(***************************************************************************)
LEMMA SegmentsListed ==
  ASSUME NEW time, TimeOk(time), NEW scheme \in {"yearly", "config_split"}, NEW main, MainOk(main),
         NEW C, NEW custom \in Seq(C), \A x \in C : SegmentOk(x)
  PROVE  LET clipped == ClippedOf(time, scheme, main)
             whole == {x \in Range(clipped) : x.from <= x.to}
             s == Found!Segments(time, scheme, custom, main)
         IN  /\ s \in Seq(Range(s)) /\ DOMAIN s = 1..Len(s) /\ Len(s) \in Nat
             /\ Range(s) \subseteq whole \cup Range(custom)
             /\ \A x \in Range(s) : SegmentOk(x)
             /\ \A m, n \in DOMAIN s : m # n => s[m].name # s[n].name
             /\ \A x \in whole \cup Range(custom) : \E n \in DOMAIN s : s[n].name = x.name
<1> DEFINE clipped == ClippedOf(time, scheme, main)
           whole == {x \in Range(clipped) : x.from <= x.to}
           list == ListOf(clipped, custom)
           s == Found!Segments(time, scheme, custom, main)
<1>1. clipped \in Seq(Range(clipped)) /\ \A x \in Range(clipped) : SegmentOk(x)
  BY ClippedListed
<1>2. s = Found!Surviving(list, Namesakes(list))
  BY SegmentsAre
<1>3. list = Kept(clipped, whole) \o custom
  BY DEF ListOf
<1>4. whole \subseteq Range(clipped)
  OBVIOUS
<1> HIDE DEF clipped, whole, list, s
<1>5. /\ Kept(clipped, whole) \in Seq(Range(clipped))
      /\ Range(Kept(clipped, whole)) = whole
  <2>1. Range(clipped) \cap whole = whole
    BY <1>4
  <2> QED BY <1>1, <2>1, KeptMembers
<1> DEFINE U == Range(clipped) \cup C
<1>6. list \in Seq(U) /\ Range(list) = whole \cup Range(custom)
  <2>1. Kept(clipped, whole) \in Seq(U) /\ custom \in Seq(U)
    BY <1>5
  <2> HIDE DEF U
  <2> QED BY <1>3, <1>5, <2>1, ConcatMembers
<1>7. \A x \in Range(list) : SegmentOk(x)
  BY <1>1, <1>4, <1>6 DEF Range
<1> HIDE DEF U
<1>8. Stayed(s, Len(list), list, Namesakes(list))
  BY <1>2, <1>6, SurvivingStays
<1>9. /\ s \in Seq(Range(list)) /\ DOMAIN s = 1..Len(s) /\ Len(s) \in Nat
      /\ Range(s) \subseteq Range(list)
  BY <1>8, ElementOfSeq, LenProperties DEF Stayed, Range
<1>10. s \in Seq(Range(s))
  BY <1>9, FunctionIsSeq DEF Range
<1>11. \A x, y \in Range(list) : <<x, y>> \in Namesakes(list) <=> x.name = y.name
  BY DEF Namesakes
<1>12. ASSUME NEW m \in DOMAIN s, NEW n \in DOMAIN s, m < n
       PROVE  s[m].name # s[n].name
  <2>1. Follows(s[m], s[n], list, Namesakes(list))
    BY <1>8, <1>12 DEF Stayed, InOrder
  <2>2. s[m] \in Range(list) /\ s[n] \in Range(list)
    BY <1>9 DEF Range
  <2> QED BY <1>11, <2>1, <2>2 DEF Follows
<1>13. ASSUME NEW m \in DOMAIN s, NEW n \in DOMAIN s, m # n
       PROVE  s[m].name # s[n].name
  BY <1>9, <1>12, <1>13
<1>14. ASSUME NEW x \in Range(list)
       PROVE  \E n \in DOMAIN s : s[n].name = x.name
  <2>1. PICK n \in 1..Len(list) : x = list[n]
    BY <1>6, LenProperties DEF Range
  <2>2. PICK l \in 1..n : list[l] \in Range(s) /\ list[l].name = x.name
    <3>1. CASE list[n] \in Range(s)
      BY <2>1, <3>1
    <3>2. CASE list[n] \notin Range(s)
      <4>1. PICK m \in 1..(n - 1) : list[m] \in Range(s) /\ <<list[m], list[n]>> \in Namesakes(list)
        BY <1>8, <3>2 DEF Stayed
      <4>2. list[m].name = list[n].name
        BY <1>9, <1>11, <2>1, <4>1
      <4> QED BY <2>1, <4>1, <4>2
    <3> QED BY <3>1, <3>2
  <2> QED BY <2>2 DEF Range
<1> QED BY <1>6, <1>7, <1>9, <1>10, <1>13, <1>14 DEF s, whole, clipped

-----------------------------------------------------------------------------
(* The inputs that are drawn.                                              *)

\* A store of some cells has typed rows: labels before day 4, industries of
\* all but the last symbol.
DrawnStore(store, cells) ==
  /\ RowsTyped(store) /\ DOMAIN store = cells
  /\ \A k \in cells : /\ k[1] # 4 => store[k].label \in Int
                      /\ k[2] # 3 => store[k].industry = "bank"

\* Every store of a drawn shape is one.
LEMMA StoreTyped ==
  ASSUME NEW p, NEW q, NEW gaps, NEW absent, NEW third
  PROVE  DrawnStore(FactorStore(p, q, gaps, absent, third), EvidenceCells \ absent)
<1> DEFINE store == FactorStore(p, q, gaps, absent, third)
           cells == EvidenceCells \ absent
<1>1. IsFiniteSet(cells)
  <2>1. IsFiniteSet(EvidenceCells)
    <3>1. IsFiniteSet(1..4) /\ IsFiniteSet(1..3)
      <4>1. 1 \in Int /\ 3 \in Int /\ 4 \in Int
        OBVIOUS
      <4> QED BY <4>1, FS_Interval
    <3> QED BY <3>1, FS_Product DEF EvidenceCells
  <2>2. cells \subseteq EvidenceCells
    OBVIOUS
  <2> HIDE DEF cells
  <2> QED BY <2>1, <2>2, FS_Subset
<1>2. \A k \in cells : k[1] \in 1..4 /\ k[2] \in 1..3
  BY DEF EvidenceCells
<1>3. \A s \in {p, q}, d \in 1..4, i \in 1..3 : 6 * Shape(s, d, i) \in Int
  <2>1. ASSUME NEW s \in {p, q}, NEW d \in 1..4, NEW i \in 1..3 PROVE Shape(s, d, i) \in Int
    BY DEF Shape
  <2> QED BY <2>1
<1>4. DOMAIN store = cells
  BY DEF FactorStore
<1>5. ASSUME NEW k \in cells
      PROVE  /\ k[1] \in Int /\ DOMAIN store[k] = {"label", "x", "industry"}
             /\ store[k].label \in Numbers /\ store[k].x \in Numbers
             /\ k[1] # 4 => store[k].label \in Int
             /\ k[2] # 3 => store[k].industry = "bank"
  BY <1>2, <1>3 DEF FactorStore, Numbers
<1> HIDE DEF store, cells
<1>6. DrawnStore(store, cells)
  BY <1>1, <1>4, <1>5 DEF DrawnStore, RowsTyped
<1> QED BY <1>6 DEF store, cells

\* A store with a labelled row of an industry, and a run over all days.
StoreOk(store) ==
  /\ RowsTyped(store)
  /\ \E k \in DOMAIN store : k[1] \in 1..4 /\ store[k].label \in Int /\ store[k].industry # None
WholeRun(run) ==
  /\ RunOk(run) /\ IsFiniteSet(DOMAIN run.segments) /\ run.universe = None
  /\ run.from = 1 /\ run.to = 4 /\ run.space = "raw_return" /\ run.neutral \in BOOLEAN

\* Such a run has rows.
LEMMA RowsFound ==
  ASSUME NEW store, StoreOk(store), NEW run, WholeRun(run)
  PROVE  DOMAIN Found!Examined(store, run) # {}
<1> DEFINE rows == Found!Loaded(store, run)
           labelled == Relabelled(rows, run)
           kept == Restrict(labelled, KeptRows(rows, run))
<1>1. RowsTyped(store) /\ RunOk(run)
  BY DEF StoreOk, WholeRun
<1>2. /\ rows = Restrict(store, Within(store, run)) /\ Labelled(kept)
      /\ DOMAIN kept = KeptRows(rows, run)
      /\ Found!Examined(store, run) =
           IF DOMAIN rows = {} THEN rows
           ELSE IF ~Found!SpaceAvailable(rows, run) THEN <<>>
           ELSE IF DOMAIN kept = {} \/ ~run.neutral THEN kept
           ELSE IF \A k \in DOMAIN kept : kept[k].industry = None THEN <<>>
           ELSE Found!Neutral(kept)
  <2> HIDE DEF rows, kept
  <2> QED BY <1>1, RowsOfRun DEF rows, labelled, kept
<1>3. PICK c \in DOMAIN store :
        c[1] \in 1..4 /\ store[c].label \in Int /\ store[c].industry # None
  BY DEF StoreOk
<1>4. c \in DOMAIN rows /\ rows[c] = store[c]
  <2> HIDE DEF rows
  <2> QED BY <1>2, <1>3 DEF Restrict, Within, WholeRun, Found!Admits
<1>5. c \in KeptRows(rows, run)
  <2>1. Found!InSpace(rows, run, c) = rows[c].label
    BY <1>3, <1>4, SentinelAssumption DEF WholeRun, Found!InSpace
  <2> HIDE DEF rows
  <2> QED BY <1>3, <1>4, <2>1, SentinelAssumption DEF KeptRows
<1>6. kept[c].industry = store[c].industry
  <2>1. kept[c] = labelled[c] /\ labelled[c] = [rows[c] EXCEPT !.label = Found!InSpace(rows, run, c)]
    <3> HIDE DEF rows
    <3> QED BY <1>4, <1>5 DEF Restrict, Relabelled
  <2> HIDE DEF rows, labelled, kept
  <2>2. kept[c] = [store[c] EXCEPT !.label = Found!InSpace(rows, run, c)]
    BY <1>4, <2>1
  <2> QED BY <1>1, <2>2 DEF RowsTyped
<1> HIDE DEF rows, kept, labelled
<1>7. Found!Examined(store, run) \in {kept, Found!Neutral(kept)}
  BY <1>2, <1>3, <1>4, <1>5, <1>6 DEF Found!SpaceAvailable, WholeRun
<1> QED BY <1>2, <1>5, <1>7, NeutralTyped

\* What the property needs to know of a selection.
SelectionOk ==
  /\ DOMAIN case.stores = 1..3 /\ \A n \in 1..3 : StoreOk(case.stores[n])
  /\ WholeRun(case.run) /\ WholeRun([case.run EXCEPT !.neutral = TRUE])
  /\ case.withSegments \in BOOLEAN
  /\ LimitsOk(case.choice.limits) /\ case.choice.maxCorr \in Int
  /\ case.choice.maxFeatures \in Nat \cup {None}

\* A drawn selection is one.
LEMMA SelectionDrawn ==
  ASSUME SelectionCase
  PROVE  SelectionOk
<1>1. PICK p \in {"rising", "turning", "flat"}, r \in {"turning", "mixed"}, q \in {"turning", "mixed"},
           third \in {None, "steel"}, withSegments \in BOOLEAN, inRanks \in BOOLEAN,
           duplicates \in BOOLEAN, most \in {None, 1}, hit \in {0, 60}, maxCorr \in {5, 10} :
    case = [stores |-> <<FactorStore(p, q, {<<1, 2>>}, {}, third), FactorStore("rising", q, {}, {}, third),
                         FactorStore(r, q, {}, {<<3, 2>>}, third)>>,
            run |-> [Run(<<1, 4>>, "raw_return", None, FALSE,
                         Found!Segments(Days(2, 3), "yearly", <<>>, <<1, 4>>)) EXCEPT !.universe = None],
            withSegments |-> withSegments,
            choice |-> [limits |-> [coverage |-> 50, rankIc |-> 3, rankIr |-> 4, hit |-> hit,
                                    segHit |-> IF withSegments THEN 40 ELSE None,
                                    segRange |-> IF withSegments THEN 15 ELSE None, noFlip |-> withSegments],
                        groups |-> IF duplicates THEN {{1, 2}} ELSE {},
                        inRanks |-> inRanks, maxCorr |-> maxCorr, maxFeatures |-> most]]
  BY DEF SelectionCase
<1> DEFINE segments == Found!Segments(Days(2, 3), "yearly", <<>>, <<1, 4>>)
           run == [Run(<<1, 4>>, "raw_return", None, FALSE, segments) EXCEPT !.universe = None]
           a == FactorStore(p, q, {<<1, 2>>}, {}, third)
           b == FactorStore("rising", q, {}, {}, third)
           c == FactorStore(r, q, {}, {<<3, 2>>}, third)
<1>2. StoreOk(a) /\ StoreOk(b) /\ StoreOk(c)
  <2>1. ASSUME NEW f, NEW g, NEW gaps, NEW absent \in {{}, {<<3, 2>>}}
        PROVE  StoreOk(FactorStore(f, g, gaps, absent, third))
    <3>1. "bank" # None
      BY InputAssumption
    <3> DEFINE store == FactorStore(f, g, gaps, absent, third)
               cell == <<2, 1>>
               cells == EvidenceCells \ absent
    <3>2. DrawnStore(store, cells)
      BY StoreTyped
    <3> HIDE DEF store
    <3>3. cell \in cells /\ cell[1] = 2 /\ cell[2] = 1
      BY DEF EvidenceCells
    <3> HIDE DEF cell, cells
    <3>4. cell[1] \in 1..4 /\ store[cell].label \in Int /\ store[cell].industry # None
      BY <3>1, <3>2, <3>3 DEF DrawnStore
    <3> QED BY <3>2, <3>3, <3>4 DEF store, StoreOk, DrawnStore
  <2> QED BY <2>1
<1>3. IsFiniteSet(DOMAIN segments)
  <2>1. TimeOk(Days(2, 3))
    BY DEF TimeOk, Days, Found!Splits
  <2>2. MainOk(<<1, 4>>)
    BY DEF MainOk, Found!Year
  <2>3. <<>> \in Seq({}) /\ \A x \in {} : SegmentOk(x)
    OBVIOUS
  <2> HIDE DEF segments
  <2>4. DOMAIN segments = 1..Len(segments) /\ Len(segments) \in Nat
    BY <2>1, <2>2, <2>3, SegmentsListed DEF segments
  <2> QED BY <2>4, FS_Interval
<1> HIDE DEF segments, a, b, c
<1>4. WholeRun(run) /\ WholeRun([run EXCEPT !.neutral = TRUE])
  BY <1>3 DEF Run, WholeRun, RunOk
<1>5. /\ case.stores = <<a, b, c>> /\ case.run = run /\ case.withSegments \in BOOLEAN
      /\ case.choice.maxCorr \in Int /\ case.choice.maxFeatures \in Nat \cup {None}
  <2> HIDE DEF run
  <2> QED BY <1>1 DEF run, segments, a, b, c
<1>6. LimitsOk(case.choice.limits)
  BY <1>1 DEF LimitsOk
<1> HIDE DEF run
<1> QED BY <1>2, <1>4, <1>5, <1>6 DEF SelectionOk

\* The rows of the three factors.
LEMMA SummariesOk ==
  ASSUME SelectionOk, NEW run, WholeRun(run)
  PROVE  RowsOk(Summaries(run)) /\ NamesOf(Summaries(run)) = 1..3
<1> DEFINE row == [n \in 1..3 |-> Found!SummaryRow(n, n % 2, Found!Evidence(case.stores[n], run), case.withSegments)]
           rows == Summaries(run)
<1>1. rows = {row[n] : n \in 1..3}
  BY DEF Summaries
<1>2. ASSUME NEW n \in 1..3 PROVE RowOk(row[n]) /\ row[n].name = n
  <2>1. n \in Int /\ n % 2 \in Int
    OBVIOUS
  <2>2. RowsTyped(case.stores[n]) /\ DOMAIN Found!Examined(case.stores[n], run) # {}
    BY RowsFound DEF SelectionOk, StoreOk
  <2>3. RunOk(run) /\ IsFiniteSet(DOMAIN run.segments) /\ ~(run.from > run.to)
    BY DEF WholeRun
  <2>4. case.withSegments \in BOOLEAN
    BY DEF SelectionOk
  <2>5. row[n] = Found!SummaryRow(n, n % 2, Found!Evidence(case.stores[n], run), case.withSegments)
    OBVIOUS
  <2> HIDE DEF row
  <2> QED BY <2>1, <2>2, <2>3, <2>4, <2>5, SummaryRowType
<1> HIDE DEF row, rows
<1>3. IsFiniteSet(rows)
  <2>1. IsFiniteSet(1..3)
    <3>1. 1 \in Int /\ 3 \in Int
      OBVIOUS
    <3> QED BY <3>1, FS_Interval
  <2> QED BY <1>1, <2>1, KeysFinite
<1>4. RowsOk(rows)
  BY <1>1, <1>2, <1>3 DEF RowsOk
<1> QED BY <1>1, <1>2, <1>4 DEF rows, NamesOf

\* The property of the selection.
LEMMA SelectionIsJustified ==
  ASSUME SelectionOk
  PROVE  JustifiedBy(Summaries(case.run), Summaries([case.run EXCEPT !.neutral = TRUE]))
<1> DEFINE plain == Summaries(case.run)
           neutral == Summaries([case.run EXCEPT !.neutral = TRUE])
           limits == case.choice.limits
           robust == Found!RobustSummary(plain, neutral)
           passing == Found!Prefiltered(robust, limits)
           columns == Found!Columns(case.stores, case.run)
           profile == Found!Profile(robust, case.stores, case.run, case.choice)
<1>1. /\ RowsOk(plain) /\ NamesOf(plain) = 1..3
      /\ RowsOk(neutral) /\ NamesOf(neutral) = 1..3
  BY SummariesOk DEF SelectionOk
<1>2. LimitsOk(limits)
  BY DEF SelectionOk
<1> HIDE DEF plain, neutral, limits
<1>3. \E r \in plain, n \in neutral : n.name = r.name
  BY <1>1 DEF NamesOf
<1>4. /\ RowsOk(robust)
      /\ NamesOf(passing) \subseteq NamesOf(Found!Prefiltered(plain, limits))
                                      \cap NamesOf(Found!Prefiltered(neutral, limits))
  BY <1>1, <1>2, <1>3, RobustOfBoth
<1> HIDE DEF robust
<1>5. RowsOk(passing)
  BY <1>4, FS_Subset DEF Found!Prefiltered, RowsOk
<1>6. \A r \in passing : r.name \in 1..3
  BY <1>1, <1>4 DEF NamesOf, Found!Prefiltered
<1>7. \A n \in 1..3 : CellsOk(columns[n])
  <2>1. ASSUME NEW n \in 1..3 PROVE CellsOk(columns[n])
    BY RowsOfRun DEF SelectionOk, StoreOk, WholeRun, Found!Columns,
       Found!Column, CellsOk, RowsTyped
  <2> QED BY <2>1
<1>8. profile \in {None, Found!Limited(SelectedOf(passing, columns), case.choice.maxFeatures)}
  BY DEF Found!Profile, SelectedOf, KeptOf, limits
<1>9. case.choice.maxCorr \in Int /\ case.choice.maxFeatures \in Nat \cup {None}
  BY DEF SelectionOk
<1> HIDE DEF passing, columns, profile
<1>10. profile # None => Justifies(passing, columns, profile)
  BY <1>5, <1>6, <1>7, <1>8, <1>9, ProfileJustified
<1> QED BY <1>4, <1>10 DEF JustifiedBy, robust, passing, columns, profile, plain, neutral, limits

-----------------------------------------------------------------------------
(* Sums over the days of a part.                                           *)

\* A mean depends on the values that are averaged.
LEMMA AverageSame ==
  ASSUME NEW S, IsFiniteSet(S), NEW f, NEW g, \A s \in S : f[s] = g[s]
  PROVE  Found!Average(f, S) = Found!Average(g, S)
BY SumSame, FoundOperators DEF Found!Average

\* So does a covariance.
LEMMA CovarianceSame ==
  ASSUME NEW S, IsFiniteSet(S), NEW a, NEW b, NEW c, NEW e,
         \A s \in S : a[s] = c[s] /\ b[s] = e[s]
  PROVE  Covariance(a, b, S) = Covariance(c, e, S)
BY SumSame DEF Covariance

\* So do correlations, ranks and buckets.
LEMMA CorrelationSame ==
  ASSUME NEW S, IsFiniteSet(S), NEW a, NEW b, NEW c, NEW e,
         \A s \in S : a[s] = c[s] /\ b[s] = e[s]
  PROVE  Found!Correlation(a, b, S) = Found!Correlation(c, e, S)
BY CovarianceSame, CorrelationValue

\* Ranks depend on the values that are ranked.
LEMMA RanksSame ==
  ASSUME NEW S, NEW f, NEW g, \A s \in S : f[s] = g[s]
  PROVE  Found!Ranks(f, S) = Found!Ranks(g, S)
<1> DEFINE value(h, k) == 2 * Cardinality({j \in S : h[j] < h[k]}) + Cardinality({j \in S : h[j] = h[k]}) + 1
<1>1. ASSUME NEW k \in S PROVE value(f, k) = value(g, k)
  OBVIOUS
<1> HIDE DEF value
<1> QED BY <1>1, FoundOperators DEF Found!Ranks

\* And so do the means of the buckets.
LEMMA BucketMeansSame ==
  ASSUME NEW S, IsFiniteSet(S), NEW a, NEW b, NEW c, NEW e, NEW bins,
         \A s \in S : a[s] = c[s] /\ b[s] = e[s]
  PROVE  Found!BucketMeans(a, b, S, bins) = Found!BucketMeans(c, e, S, bins)
<1> DEFINE bucket == Found!Bucket(a, S, bins)
           of(n) == {k \in S : bucket[k] = n}
<1>1. Found!Bucket(c, S, bins) = bucket
  BY RanksSame DEF Found!Bucket
<1>2. /\ Found!BucketMeans(a, b, S, bins) = [n \in Range(bucket) |-> Found!Average(b, of(n))]
      /\ Found!BucketMeans(c, e, S, bins) = [n \in Range(bucket) |-> Found!Average(e, of(n))]
  BY <1>1, FoundOperators DEF Found!BucketMeans
<1> HIDE DEF bucket
<1>3. ASSUME NEW n \in Range(bucket) PROVE Found!Average(b, of(n)) = Found!Average(e, of(n))
  BY FS_Subset, AverageSame
<1> HIDE DEF of
<1> QED BY <1>2, <1>3

-----------------------------------------------------------------------------
(* Some days of the rows.                                                  *)

\* The rows of some of the days.
PartOf(rows, whole, D) == /\ DOMAIN rows = {k \in DOMAIN whole : k[1] \in D}
                          /\ \A k \in DOMAIN rows : rows[k] = whole[k]

\* Two tables that have the same day.
SameDay(rows, whole, d, name) ==
  LET f == Found!Column(rows, name)
      g == Found!Column(whole, name)
      day == Found!OfDay(whole, d)
  IN  /\ Found!OfDay(rows, d) = day /\ \A k \in day : f[k] = g[k]
      /\ Found!Known(f, day) = Found!Known(g, day)
      /\ IsFiniteSet(Found!Known(g, day)) /\ Found!Known(g, day) \subseteq day

\* A day of a part is that day of all.
LEMMA DayOfPart ==
  ASSUME NEW rows, NEW whole, RowsTyped(whole), NEW D, PartOf(rows, whole, D), NEW d \in D, NEW name
  PROVE  SameDay(rows, whole, d, name)
BY FS_Subset DEF PartOf, Found!OfDay, Found!Column, Found!Known, RowsTyped,
   SameDay

(***************************************************************************)
(* What a day says of a factor does not depend on other days.              *)
(***************************************************************************)
LEMMA DailyOfPart ==
  ASSUME NEW rows, NEW whole, RowsTyped(whole), NEW D, PartOf(rows, whole, D), NEW d \in D, NEW bins
  PROVE  Found!Daily(rows, d, bins) = Found!Daily(whole, d, bins)
<1> DEFINE x(s) == Found!Column(s, "x")
           y(s) == Found!Column(s, "label")
           valid == Found!Known(x(whole), Found!OfDay(whole, d))
           means(s) == Found!BucketMeans(x(s), y(s), valid, bins)
           said(s) ==
             [day |-> d, observed |-> Found!Cardinality(Found!OfDay(whole, d)),
              paired |-> Found!Cardinality(valid),
              ic |-> Found!Correlation(x(s), y(s), valid),
              rank |-> Found!Correlation(Found!Ranks(x(s), valid), Found!Ranks(y(s), valid), valid),
              monotonicity |-> IF Found!Cardinality(valid) < bins THEN NaN
                               ELSE Found!RankCorrelation([b \in DOMAIN means(s) |-> b], means(s), DOMAIN means(s)),
              spread |-> IF valid = {} THEN NaN
                         ELSE means(s)[Found!Max(DOMAIN means(s))] - means(s)[Found!Min(DOMAIN means(s))]]
<1>1. /\ Found!OfDay(rows, d) = Found!OfDay(whole, d)
      /\ Found!Known(x(rows), Found!OfDay(rows, d)) = valid /\ IsFiniteSet(valid)
      /\ \A k \in valid : x(rows)[k] = x(whole)[k] /\ y(rows)[k] = y(whole)[k]
  <2> HIDE DEF valid, x, y
  <2>1. /\ Found!OfDay(rows, d) = Found!OfDay(whole, d)
        /\ Found!Known(x(rows), Found!OfDay(whole, d)) = valid
        /\ \A k \in Found!OfDay(whole, d) : x(rows)[k] = x(whole)[k]
        /\ IsFiniteSet(valid) /\ valid \subseteq Found!OfDay(whole, d)
    <3>1. SameDay(rows, whole, d, "x")
      BY DayOfPart
    <3> QED BY <3>1 DEF SameDay, valid, x
  <2>2. \A k \in Found!OfDay(whole, d) : y(rows)[k] = y(whole)[k]
    BY DayOfPart DEF SameDay, y
  <2> QED BY <2>1, <2>2
<1>2. Found!Daily(rows, d, bins) = said(rows) /\ Found!Daily(whole, d, bins) = said(whole)
  BY <1>1 DEF Found!Daily, Found!RankCorrelation
<1> HIDE DEF valid, x, y
<1>3. /\ Found!Correlation(x(rows), y(rows), valid) = Found!Correlation(x(whole), y(whole), valid)
      /\ Found!Ranks(x(rows), valid) = Found!Ranks(x(whole), valid)
      /\ Found!Ranks(y(rows), valid) = Found!Ranks(y(whole), valid)
      /\ means(rows) = means(whole)
  BY <1>1, CorrelationSame, RanksSame, BucketMeansSame
<1> HIDE DEF means
<1> QED BY <1>2, <1>3

\* The days of a part, and what they say.
LEMMA SummaryOfPart ==
  ASSUME NEW rows, NEW whole, RowsTyped(whole), NEW D, PartOf(rows, whole, D), NEW bins
  PROVE  /\ Found!DaysOf(rows) = {d \in Found!DaysOf(whole) : d \in D}
         /\ {Found!Daily(rows, d, bins) : d \in Found!DaysOf(rows)}
              = {Found!Daily(whole, d, bins) : d \in {e \in Found!DaysOf(whole) : e \in D}}
BY DailyOfPart DEF Found!DaysOf, PartOf

\* The mean of the peers of a row is of its day.
LEMMA PeerMeanOfPart ==
  ASSUME NEW rows, NEW whole, RowsTyped(whole), NEW D, PartOf(rows, whole, D),
         NEW k \in DOMAIN rows, NEW name
  PROVE  Found!PeerMean(rows, name, k) = Found!PeerMean(whole, name, k)
<1> DEFINE f == Found!Column(rows, name)
           g == Found!Column(whole, name)
           peers == Found!PeersIn(whole, k)
           known == Found!Known(g, peers)
<1>1. Found!PeersIn(rows, k) = peers /\ peers \in SUBSET DOMAIN rows /\ DOMAIN rows \in SUBSET DOMAIN whole
  BY DEF PartOf, Found!PeersIn
<1>2. \A j \in DOMAIN rows : f[j] = g[j]
  BY DEF PartOf, Found!Column
<1> HIDE DEF f, g, peers
<1>3. Found!Known(f, peers) = known /\ known \in SUBSET peers
  BY <1>1, <1>2 DEF Found!Known
<1> HIDE DEF known
<1>4. IsFiniteSet(known) /\ \A j \in known : f[j] = g[j]
  BY <1>1, <1>2, <1>3, FS_Subset DEF RowsTyped
<1>5. Found!Average(f, known) = Found!Average(g, known)
  BY <1>4, AverageSame
<1>6. /\ Found!PeerMean(rows, name, k) = Found!Average(f, known)
      /\ Found!PeerMean(whole, name, k) = Found!Average(g, known)
  BY <1>1, <1>3 DEF Found!PeerMean, f, g, known, peers
<1> QED BY <1>5, <1>6

\* A run over some of the days of another.
Shorter(short, run, segment) ==
  /\ short.from = Found!Upper(run.from, segment.from) /\ short.to = Found!Lower(run.to, segment.to)
  /\ short.space = run.space /\ short.benchmark = run.benchmark /\ short.horizon = run.horizon
  /\ short.threshold = run.threshold /\ short.neutral = run.neutral /\ short.universe = run.universe
  /\ short.bins = run.bins

\* A label of its space is of its day.
LEMMA InSpaceOfPart ==
  ASSUME NEW rows, NEW whole, RowsTyped(whole), NEW D, PartOf(rows, whole, D),
         NEW short, NEW run, NEW segment, Shorter(short, run, segment), RunOk(run),
         NEW k \in DOMAIN rows
  PROVE  Found!InSpace(rows, short, k) = Found!InSpace(whole, run, k)
<1>1. rows[k] = whole[k] /\ k[1] \in D
  BY DEF PartOf
<1>2. Found!Benchmark(rows, short, k[1]) = Found!Benchmark(whole, run, k[1])
  BY <1>1, DayOfPart, AverageSame DEF SameDay, Shorter, Found!Benchmark
<1>3. short.space = run.space /\ short.threshold = run.threshold
  BY DEF Shorter
<1> QED BY <1>1, <1>2, <1>3, PeerMeanOfPart DEF Found!InSpace

\* The rows that are loaded for fewer days are those of these days.
LEMMA LoadedOfPart ==
  ASSUME NEW store, RowsTyped(store), NEW run, run.from \in Int, run.to \in Int,
         NEW segment, SegmentOk(segment), NEW short, Shorter(short, run, segment)
  PROVE  PartOf(Found!Loaded(store, short), Found!Loaded(store, run), segment.from..segment.to)
<1>1. \A d \in Int : d \in short.from..short.to <=> d \in run.from..run.to /\ d \in segment.from..segment.to
  BY DEF Shorter, SegmentOk, Found!Upper, Found!Lower
<1>2. Within(store, short) = {k \in Within(store, run) : k[1] \in segment.from..segment.to}
  BY <1>1 DEF RowsTyped, Shorter, Within
<1>3. PartOf(Restrict(store, Within(store, short)), Restrict(store, Within(store, run)), segment.from..segment.to)
  BY <1>2 DEF PartOf, Restrict
<1> QED BY <1>3, FoundOperators DEF Found!Loaded, Within

\* Rows without the means of industries, of some of the days.
LEMMA NeutralOfPart ==
  ASSUME NEW rows, NEW whole, RowsTyped(whole), NEW D, PartOf(rows, whole, D)
  PROVE  PartOf(Found!Neutral(rows), Found!Neutral(whole), D)
<1> DEFINE value(s, k) == IF s[k].industry = None \/ s[k].x = NaN THEN s[k]
                          ELSE [s[k] EXCEPT !.x = @ - Found!PeerMean(s, "x", k)]
<1>1. /\ Found!Neutral(rows) = [k \in DOMAIN rows |-> value(rows, k)]
      /\ Found!Neutral(whole) = [k \in DOMAIN whole |-> value(whole, k)]
  BY DEF Found!Neutral
<1>2. ASSUME NEW k \in DOMAIN rows PROVE value(rows, k) = value(whole, k)
  BY PeerMeanOfPart DEF PartOf
<1> HIDE DEF value
<1> QED BY <1>1, <1>2 DEF PartOf

(***************************************************************************)
(* The rows a run over fewer days looks at are those rows of a run over    *)
(* all days: no label and no mean of an industry reaches over an end.      *)
(***************************************************************************)
LEMMA ExaminedOfPart ==
  ASSUME NEW store, RowsTyped(store), NEW run, RunOk(run), run.from \in Int, run.to \in Int,
         run.neutral \in BOOLEAN,
         NEW segment, SegmentOk(segment), NEW short, RunOk(short), Shorter(short, run, segment),
         DOMAIN Found!Examined(store, run) # {}, DOMAIN Found!Examined(store, short) # {}
  PROVE  PartOf(Found!Examined(store, short), Found!Examined(store, run), segment.from..segment.to)
<1> DEFINE D == segment.from..segment.to
           loaded(r) == Found!Loaded(store, r)
           kept(r) == Restrict(Relabelled(loaded(r), r), KeptRows(loaded(r), r))
           found(r) == Found!Examined(store, r)
<1>1. ASSUME NEW r, RunOk(r), r.neutral \in BOOLEAN, DOMAIN found(r) # {}
      PROVE  /\ RowsTyped(loaded(r)) /\ Labelled(kept(r)) /\ DOMAIN kept(r) = KeptRows(loaded(r), r)
             /\ found(r) = IF r.neutral THEN Found!Neutral(kept(r)) ELSE kept(r)
  <2> DEFINE a == loaded(r)
             b == kept(r)
  <2>1. /\ RowsTyped(a) /\ Labelled(b) /\ DOMAIN b = KeptRows(a, r)
        /\ found(r) = IF DOMAIN a = {} THEN a
                      ELSE IF ~Found!SpaceAvailable(a, r) THEN <<>>
                      ELSE IF DOMAIN b = {} \/ ~r.neutral THEN b
                      ELSE IF \A k \in DOMAIN b : b[k].industry = None THEN <<>>
                      ELSE Found!Neutral(b)
    BY <1>1, RowsOfRun
  <2>2. DOMAIN <<>> = {}
    OBVIOUS
  <2> HIDE DEF a, b, found
  <2>3. found(r) = IF r.neutral THEN Found!Neutral(b) ELSE b
    BY <1>1, <2>1, <2>2
  <2> QED BY <2>1, <2>3 DEF a, b
<1>2. /\ RowsTyped(loaded(run)) /\ Labelled(kept(run)) /\ DOMAIN kept(run) = KeptRows(loaded(run), run)
      /\ found(run) = IF run.neutral THEN Found!Neutral(kept(run)) ELSE kept(run)
  <2> HIDE DEF loaded, kept
  <2> QED BY <1>1
<1>3. /\ RowsTyped(loaded(short)) /\ DOMAIN kept(short) = KeptRows(loaded(short), short)
      /\ found(short) = IF run.neutral THEN Found!Neutral(kept(short)) ELSE kept(short)
  <2> HIDE DEF loaded, kept
  <2> QED BY <1>1 DEF Shorter
<1>4. PartOf(loaded(short), loaded(run), D)
  BY LoadedOfPart
<1>5. \A k \in DOMAIN loaded(short) :
        Found!InSpace(loaded(short), short, k) = Found!InSpace(loaded(run), run, k)
  <2> HIDE DEF loaded, D
  <2> QED BY <1>2, <1>4, InSpaceOfPart
<1>6. PartOf(kept(short), kept(run), D)
  BY <1>4, <1>5 DEF KeptRows, PartOf, Relabelled, Restrict
<1> HIDE DEF loaded, kept, found, D
<1>7. PartOf(found(short), found(run), D)
  BY <1>2, <1>3, <1>6, NeutralOfPart DEF Labelled
<1> QED BY <1>7 DEF found, D

\* Files that are made of some rows.
MadeOf(e, rows, run) ==
  LET bins == Found!Upper(run.bins, 2)
  IN  /\ DOMAIN rows # {}
      /\ e.summary = Found!Summary({Found!Daily(rows, d, bins) : d \in Found!DaysOf(rows)})
      /\ e.months = Found!Monthly(rows, Found!DaysOf(rows))
      /\ e.segments = [n \in DOMAIN run.segments |-> Found!SegmentSummary(rows, run.segments[n], bins)]

\* What is found is made of rows.
LEMMA EvidenceHasRows ==
  ASSUME NEW store, NEW run, Found!Evidence(store, run) # None
  PROVE  MadeOf(Found!Evidence(store, run), Found!Examined(store, run), run)
BY DEF Found!Evidence, Found!Files, MadeOf

(***************************************************************************)
(* The summary of a segment is that of a run over its days alone, for any  *)
(* store, run and segment: no mean of an industry, no label space and no   *)
(* rank reaches over its ends (build_segment_summary_rows).                *)
(***************************************************************************)
THEOREM SegmentIsRun ==
  ASSUME NEW store, RowsTyped(store), NEW run, RunOk(run), run.from \in Int, run.to \in Int,
         run.neutral \in BOOLEAN, NEW n \in DOMAIN run.segments, SegmentOk(run.segments[n]),
         NEW short, RunOk(short), Shorter(short, run, run.segments[n]),
         Found!Evidence(store, run) # None, Found!Evidence(store, short) # None
  PROVE  Found!Evidence(store, run).segments[n] = Found!Evidence(store, short).summary
<1> DEFINE segment == run.segments[n]
           D == segment.from..segment.to
           whole == Found!Examined(store, run)
           rows == Found!Examined(store, short)
           bins == Found!Upper(run.bins, 2)
           days == {d \in Found!DaysOf(whole) : d \in D}
           said == {Found!Daily(whole, d, bins) : d \in days}
<1>1. /\ DOMAIN whole # {}
      /\ Found!Evidence(store, run).segments
           = [m \in DOMAIN run.segments |-> Found!SegmentSummary(whole, run.segments[m], bins)]
  <2>1. MadeOf(Found!Evidence(store, run), whole, run)
    BY EvidenceHasRows
  <2> HIDE DEF whole
  <2> QED BY <2>1 DEF MadeOf
<1>2. /\ DOMAIN rows # {}
      /\ Found!Evidence(store, short).summary
           = Found!Summary({Found!Daily(rows, d, bins) : d \in Found!DaysOf(rows)})
  <2>1. short.bins = run.bins
    BY DEF Shorter
  <2>2. MadeOf(Found!Evidence(store, short), rows, short)
    BY EvidenceHasRows
  <2> HIDE DEF rows
  <2> QED BY <2>1, <2>2 DEF MadeOf
<1>3. PartOf(rows, whole, D)
  BY <1>1, <1>2, ExaminedOfPart
<1>4. RowsTyped(whole)
  BY ExaminedTyped DEF Labelled
<1> HIDE DEF whole, rows, D, bins
<1>5. /\ Found!DaysOf(rows) = days
      /\ {Found!Daily(rows, d, bins) : d \in Found!DaysOf(rows)} = said
  BY <1>3, <1>4, SummaryOfPart
<1>6. days # {}
  BY <1>2, <1>5 DEF Found!DaysOf
<1>7. Found!SegmentSummary(whole, segment, bins) = IF days = {} THEN None ELSE Found!Summary(said)
  BY DEF Found!SegmentSummary, D
<1> HIDE DEF days, said
<1> QED BY <1>1, <1>2, <1>5, <1>6, <1>7

-----------------------------------------------------------------------------
(* Months.                                                                 *)

\* Nor does a mean.
LEMMA AverageRenamed ==
  ASSUME NEW S, IsFiniteSet(S), NEW key, \A s, t \in S : key[s] = key[t] => s = t,
         NEW f, NEW g, \A s \in S : f[s] \in Int /\ g[key[s]] = f[s],
         NEW T, T = {key[s] : s \in S}
  PROVE  Found!Average(g, T) = Found!Average(f, S)
BY SumRenamed, FoundOperators DEF Found!Average

\* The rank correlation of a day, the days that have one and their months.
RankOf(rows, d) ==
  Found!RankCorrelation(Found!Column(rows, "x"), Found!Column(rows, "label"),
                        Found!Known(Found!Column(rows, "x"), Found!OfDay(rows, d)))
KnownDays(rows) == {d \in Found!DaysOf(rows) : RankOf(rows, d) # NaN}
OfMonth(rows, m) == {d \in KnownDays(rows) : Found!Month(d) = m}
Ranking(rows) == [d \in Found!DaysOf(rows) |-> RankOf(rows, d)]
MonthMean(rows, m) == Found!Average(Ranking(rows), OfMonth(rows, m))
KnownMonths(rows) == {Found!Month(d) : d \in KnownDays(rows)}

\* Days that have a correlation have two values at least; a month has a mean
\* if it has such a day.
LEMMA MonthMeanType ==
  ASSUME NEW rows, RowsTyped(rows)
  PROVE  /\ IsFiniteSet(KnownDays(rows)) /\ IsFiniteSet(KnownMonths(rows))
         /\ \A d \in KnownDays(rows) : Ranking(rows)[d] \in Int
         /\ \A d \in KnownDays(rows) :
              Cardinality(Found!Known(Found!Column(rows, "x"), Found!OfDay(rows, d))) >= 2
         /\ \A m : /\ IsFiniteSet(OfMonth(rows, m))
                   /\ IF m \in KnownMonths(rows) THEN MonthMean(rows, m) \in Int /\ MonthMean(rows, m) # NaN
                                                 ELSE MonthMean(rows, m) = NaN
<1> DEFINE valid(d) == Found!Known(Found!Column(rows, "x"), Found!OfDay(rows, d))
           days == KnownDays(rows)
           month == [d \in days |-> Found!Month(d)]
<1>1. IsFiniteSet(days) /\ days \subseteq Found!DaysOf(rows)
  BY DaysSummarised, FS_Subset DEF KnownDays
<1>2. ASSUME NEW d \in days
      PROVE  Ranking(rows)[d] \in Int /\ Cardinality(valid(d)) >= 2
  BY <1>1, KnownOfDay, RankCorrelationType DEF RankOf, KnownDays, Ranking,
     Numbers
<1>3. KnownMonths(rows) = {month[d] : d \in days}
  BY DEF KnownMonths
<1>4. IsFiniteSet(KnownMonths(rows))
  <2> HIDE DEF month, days
  <2> QED BY <1>1, <1>3, KeysFinite
<1>5. ASSUME NEW m
      PROVE  /\ IsFiniteSet(OfMonth(rows, m))
             /\ IF m \in KnownMonths(rows) THEN MonthMean(rows, m) \in Int /\ MonthMean(rows, m) # NaN
                                           ELSE MonthMean(rows, m) = NaN
  BY <1>1, <1>2, FS_Subset, AverageType DEF OfMonth, KnownMonths, Numeric,
     MonthMean
<1> QED BY <1>1, <1>2, <1>4, <1>5

\* The months beside the summary.
LEMMA MonthsBeside ==
  ASSUME NEW rows, RowsTyped(rows)
  PROVE  LET f == Found!Monthly(rows, Found!DaysOf(rows))
         IN  /\ Found!Known(f, DOMAIN f) = KnownMonths(rows)
             /\ \A m \in KnownMonths(rows) : f[m] = MonthMean(rows, m)
<1> DEFINE valid(d) == Found!Known(Found!Column(rows, "x"), Found!OfDay(rows, d))
           f == Found!Monthly(rows, Found!DaysOf(rows))
           listed == {d \in Found!DaysOf(rows) : Cardinality(valid(d)) >= 2}
           rank == [d \in listed |-> RankOf(rows, d)]
           of(m) == Found!Known(rank, {d \in listed : Found!Month(d) = m})
           all == {Found!Month(d) : d \in listed}
<1>1. f = [m \in all |-> Found!Average(rank, of(m))]
  BY FoundOperators DEF Found!Monthly, RankOf
<1>2. KnownDays(rows) = {d \in listed : RankOf(rows, d) # NaN}
  <2>1. \A d \in KnownDays(rows) : d \in listed
    BY MonthMeanType DEF KnownDays
  <2> HIDE DEF valid
  <2> QED BY <2>1 DEF KnownDays
<1>3. ASSUME NEW m PROVE of(m) = OfMonth(rows, m)
  <2> HIDE DEF listed
  <2> QED BY <1>2 DEF OfMonth, Found!Known
<1>4. \A d \in listed : rank[d] = Ranking(rows)[d]
  <2> HIDE DEF valid
  <2> QED BY DEF Ranking
<1>5. KnownMonths(rows) \subseteq all
  <2> HIDE DEF listed
  <2> QED BY <1>2 DEF KnownMonths
<1>6. \A m : OfMonth(rows, m) \subseteq listed
  <2> HIDE DEF listed
  <2> QED BY <1>2 DEF OfMonth
<1> HIDE DEF f, listed, rank, of, all
<1>7. ASSUME NEW m \in all PROVE f[m] = MonthMean(rows, m)
  BY <1>1, <1>3, <1>4, <1>6, MonthMeanType, AverageSame DEF MonthMean
<1>8. Found!Known(f, DOMAIN f) = KnownMonths(rows)
  BY <1>1, <1>5, <1>7, MonthMeanType DEF Found!Known
<1> QED BY <1>5, <1>7, <1>8 DEF f

(***************************************************************************)
(* The months the summary is made from: the days of a month are one row of *)
(* it.                                                                     *)
(***************************************************************************)
LEMMA MonthsOfSummary ==
  ASSUME NEW rows, RowsTyped(rows), NEW bins
  PROVE  LET P == {<<m, MonthMean(rows, m)>> : m \in KnownMonths(rows)}
         IN  Found!Summary({Found!Daily(rows, d, bins) : d \in Found!DaysOf(rows)}).monthlyMean
               = Found!Average([p \in P |-> p[2]], P)
<1> DEFINE days == KnownDays(rows)
           daily == {Found!Daily(rows, d, bins) : d \in Found!DaysOf(rows)}
           effective == {r \in daily : r.rank # NaN}
           said(m) == {r \in effective : Found!Month(r.day) = m}
           mean(m) == Found!Average([r \in said(m) |-> r.rank], said(m))
           monthly == {<<m, mean(m)>> : m \in {Found!Month(r.day) : r \in effective}}
           P == {<<m, MonthMean(rows, m)>> : m \in KnownMonths(rows)}
           say == [d \in Found!DaysOf(rows) |-> Found!Daily(rows, d, bins)]
<1>1. Found!Summary(daily).monthlyMean = Found!Average([p \in monthly |-> p[2]], monthly)
  <2> HIDE DEF daily
  <2> QED BY DEF Found!Summary
<1>2. ASSUME NEW d \in Found!DaysOf(rows)
      PROVE  say[d].day = d /\ say[d].rank = RankOf(rows, d) /\ Ranking(rows)[d] = RankOf(rows, d)
  BY DEF Found!Daily, RankOf, Ranking
<1>3. daily = {say[d] : d \in Found!DaysOf(rows)}
  OBVIOUS
<1> HIDE DEF say, daily
<1>4. effective = {say[d] : d \in days} /\ days \subseteq Found!DaysOf(rows)
  BY <1>2, <1>3 DEF KnownDays
<1> HIDE DEF effective, days
<1>5. ASSUME NEW m PROVE mean(m) = MonthMean(rows, m)
  <2> DEFINE S == OfMonth(rows, m)
             T == said(m)
             g == [r \in T |-> r.rank]
  <2>1. S \subseteq days /\ S \subseteq Found!DaysOf(rows)
    BY <1>4 DEF OfMonth, days
  <2>2. T = {say[d] : d \in S}
    BY <1>2, <1>4 DEF OfMonth, days
  <2>3. IsFiniteSet(S) /\ \A d \in S : Ranking(rows)[d] \in Int
    BY <2>1, MonthMeanType DEF days
  <2> HIDE DEF S, T
  <2>4. \A s, t \in S : say[s] = say[t] => s = t
    BY <1>2, <2>1
  <2>5. \A d \in S : g[say[d]] = Ranking(rows)[d]
    BY <1>2, <2>1, <2>2
  <2> HIDE DEF g
  <2>6. Found!Average(g, T) = Found!Average(Ranking(rows), S)
    BY <2>2, <2>3, <2>4, <2>5, AverageRenamed
  <2> QED BY <2>6 DEF MonthMean, g, S, T
<1> HIDE DEF mean
<1>6. monthly = P
  BY <1>2, <1>4, <1>5 DEF KnownMonths, days
<1> QED BY <1>1, <1>6 DEF daily

\* The mean of the months in the summary is that of the months beside it.
LEMMA MonthsAgree ==
  ASSUME NEW rows, RowsTyped(rows), NEW bins
  PROVE  LET f == Found!Monthly(rows, Found!DaysOf(rows))
         IN  Found!Summary({Found!Daily(rows, d, bins) : d \in Found!DaysOf(rows)}).monthlyMean
               = Found!Average(f, Found!Known(f, DOMAIN f))
<1> DEFINE S == KnownMonths(rows)
           key == [m \in S |-> <<m, MonthMean(rows, m)>>]
           P == {<<m, MonthMean(rows, m)>> : m \in S}
           g == [p \in P |-> p[2]]
           f == Found!Monthly(rows, Found!DaysOf(rows))
<1>1. Found!Summary({Found!Daily(rows, d, bins) : d \in Found!DaysOf(rows)}).monthlyMean
        = Found!Average(g, P)
  BY MonthsOfSummary
<1>2. Found!Known(f, DOMAIN f) = S /\ \A m \in S : f[m] = MonthMean(rows, m)
  BY MonthsBeside
<1>3. IsFiniteSet(S) /\ \A m \in S : MonthMean(rows, m) \in Int
  BY MonthMeanType
<1>4. P = {key[m] : m \in S} /\ \A m \in S : key[m] = <<m, MonthMean(rows, m)>>
  OBVIOUS
<1>5. \A m \in S : g[key[m]] = MonthMean(rows, m)
  OBVIOUS
<1> HIDE DEF S, key, P, g, f
<1>6. \A m, l \in S : key[m] = key[l] => m = l
  BY <1>4
<1>7. Found!Average(g, P) = Found!Average(f, S)
  BY <1>2, <1>3, <1>4, <1>5, <1>6, AverageRenamed
<1> QED BY <1>1, <1>2, <1>7 DEF f

-----------------------------------------------------------------------------
(* The years of a range.                                                   *)

\* A day is of one year.
LEMMA YearOfDay ==
  ASSUME NEW d \in Int
  PROVE  /\ Found!Year(d) \in Int
         /\ \A y \in Int : d \in (y * 3 + 1)..((y + 1) * 3) <=> y = Found!Year(d)
         /\ \A e \in Int : d <= e => Found!Year(d) <= Found!Year(e)
BY DEF Found!Year

\* One of some segments has a day, but for the segment that the user names.
CoveredOnce(s, d) ==
  Cardinality({n \in DOMAIN s : s[n].name # <<"own">> /\ d \in s[n].from..s[n].to}) = 1

(***************************************************************************)
(* The years of any range of days are all of it and overlap nowhere,       *)
(* whatever segments of another name the user adds (resolve_segments).     *)
(***************************************************************************)
THEOREM YearsCover ==
  ASSUME NEW time, TimeOk(time), NEW main, MainOk(main), NEW C, NEW custom \in Seq(C),
         \A x \in C : SegmentOk(x) /\ x.name = <<"own">>, NEW d \in main[1]..main[2]
  PROVE  CoveredOnce(Found!Segments(time, "yearly", custom, main), d)
<1> DEFINE s == Found!Segments(time, "yearly", custom, main)
           clipped == ClippedOf(time, "yearly", main)
           whole == {x \in Range(clipped) : x.from <= x.to}
           size == Found!Year(main[2]) - Found!Year(main[1]) + 1
           y == Found!Year(d)
           of == {n \in DOMAIN s : s[n].name # <<"own">> /\ d \in s[n].from..s[n].to}
<1>1. main[1] \in Int /\ main[2] \in Int /\ size \in Nat /\ d \in Int
  BY DEF MainOk
<1>2. /\ Range(s) \subseteq whole \cup Range(custom)
      /\ \A m, n \in DOMAIN s : m # n => s[m].name # s[n].name
      /\ \A x \in whole \cup Range(custom) : \E n \in DOMAIN s : s[n].name = x.name
  BY SegmentsListed
<1>3. clipped = YearsOf(main)
  BY ClippedListed
<1>4. \A x \in Range(custom) : x.name = <<"own">>
  BY DEF Range
<1>5. ASSUME NEW z \in Int
      PROVE  /\ YearOf(z, main).name = <<"y", z>> /\ SegmentOk(YearOf(z, main))
             /\ d \in YearOf(z, main).from..YearOf(z, main).to <=> z = y
  <2> DEFINE range == <<z * 3 + 1, (z + 1) * 3>>
  <2>1. range[1] = z * 3 + 1 /\ range[2] = (z + 1) * 3 /\ range[1] \in Int /\ range[2] \in Int
    OBVIOUS
  <2>2. YearOf(z, main) = Found!Clipped(<<"y", z>>, range, main)
    BY DEF YearOf
  <2> HIDE DEF range
  <2>3. /\ YearOf(z, main).name = <<"y", z>> /\ SegmentOk(YearOf(z, main))
        /\ d \in YearOf(z, main).from..YearOf(z, main).to
             <=> d \in (z * 3 + 1)..((z + 1) * 3) /\ d \in main[1]..main[2]
    BY <1>1, <2>1, <2>2, ClippedType
  <2> QED BY <1>1, <2>3, YearOfDay
<1>6. /\ Found!Year(main[1]) \in Int /\ y \in Int /\ Found!Year(main[2]) \in Int
      /\ Found!Year(main[1]) <= y /\ y <= Found!Year(main[2])
  <2>1. main[1] <= d /\ d <= main[2]
    BY <1>1
  <2> QED BY <1>1, <2>1, YearOfDay
<1>7. \A x : x \in Range(clipped) <=> \E n \in 1..size : x = YearOf(Found!Year(main[1]) + n - 1, main)
  BY <1>3 DEF YearsOf, Range
<1> HIDE DEF s, clipped, y, whole
<1>8. YearOf(y, main) \in whole
  <2>1. Found!Year(main[1]) + (y - Found!Year(main[1]) + 1) - 1 = y
    BY <1>6
  <2>2. YearOf(y, main) \in Range(clipped)
    BY <1>6, <1>7, <2>1
  <2>3. YearOf(y, main).from <= YearOf(y, main).to
    BY <1>1, <1>5, <1>6 DEF SegmentOk
  <2> QED BY <2>2, <2>3 DEF whole
<1>9. ASSUME NEW n \in DOMAIN s, s[n].name # <<"own">>
      PROVE  \E z \in Int : s[n] = YearOf(z, main)
  <2>1. s[n] \in Range(s)
    BY DEF Range
  <2>2. s[n] \in Range(clipped)
    BY <1>2, <1>4, <1>9, <2>1 DEF whole
  <2>3. PICK m \in 1..size : s[n] = YearOf(Found!Year(main[1]) + m - 1, main)
    BY <1>7, <2>2
  <2>4. Found!Year(main[1]) + m - 1 \in Int
    BY <1>6
  <2> QED BY <2>3, <2>4
<1>10. PICK n \in DOMAIN s : s[n].name = <<"y", y>>
  BY <1>2, <1>5, <1>6, <1>8
<1>11. \A z \in Int : <<"y", z>> # <<"own">>
  OBVIOUS
<1>12. n \in of
  BY <1>5, <1>6, <1>9, <1>10, <1>11
<1>13. ASSUME NEW m \in of PROVE m = n
  BY <1>2, <1>5, <1>9, <1>10
<1>14. of = {n}
  BY <1>12, <1>13
<1> HIDE DEF of
<1> QED BY <1>14, FS_Singleton DEF of, s, CoveredOnce

-----------------------------------------------------------------------------
(* The inputs that are drawn.                                              *)

RunFields == {"from", "to", "space", "benchmark", "neutral", "segments", "universe", "threshold",
              "horizon", "bins"}

\* A run over a segment alone is one over fewer days.
LEMMA AloneIsShorter ==
  ASSUME NEW run, DOMAIN run = RunFields, RunOk(run), NEW segment
  PROVE  Shorter(Alone(run, segment), run, segment) /\ RunOk(Alone(run, segment))
BY DEF Alone, RunFields, Shorter, RunOk

\* The days of a drawn run.
LEMMA DaysDrawn ==
  ASSUME NEW time, time = Days(2, 3), NEW period \in {"train", "all"}
  PROVE  /\ TimeOk(time)
         /\ Found!PeriodDates(time, period, None, None) \in {<<1, 2>>, <<1, 4>>}
         /\ MainOk(<<1, 2>>) /\ MainOk(<<1, 4>>)
<1>1. time = [train |-> <<1, 2>>, valid |-> <<3, 3>>, test |-> <<4, 4>>]
  BY DEF Days
<1>2. TimeOk(time)
  BY <1>1 DEF TimeOk, Found!Splits
<1>3. MainOk(<<1, 2>>) /\ MainOk(<<1, 4>>)
  BY DEF MainOk, Found!Year
<1>4. {time[s][1] : s \in DOMAIN time} = {1, 3, 4} /\ {time[s][2] : s \in DOMAIN time} = {2, 3, 4}
  BY <1>1
<1>5. Found!Min({1, 3, 4}) = 1 /\ Found!Max({2, 3, 4}) = 4
  <2>1. \E x \in {1, 3, 4} : \A y \in {1, 3, 4} : x <= y
    OBVIOUS
  <2>2. Found!Min({1, 3, 4}) \in {1, 3, 4} /\ \A y \in {1, 3, 4} : Found!Min({1, 3, 4}) <= y
    BY <2>1 DEF Found!Min
  <2>3. \E x \in {2, 3, 4} : \A y \in {2, 3, 4} : x >= y
    OBVIOUS
  <2>4. Found!Max({2, 3, 4}) \in {2, 3, 4} /\ \A y \in {2, 3, 4} : Found!Max({2, 3, 4}) >= y
    BY <2>3 DEF Found!Max
  <2> QED BY <2>2, <2>4
<1>6. Found!PeriodDates(time, period, None, None) =
        IF period = "all"
        THEN <<Found!Min({time[s][1] : s \in DOMAIN time}), Found!Max({time[s][2] : s \in DOMAIN time})>>
        ELSE time[period]
  BY DEF Found!PeriodDates
<1>7. Found!PeriodDates(time, period, None, None) \in {<<1, 2>>, <<1, 4>>}
  BY <1>1, <1>4, <1>5, <1>6
<1> QED BY <1>2, <1>3, <1>7

\* What the property needs to know of evidence.
EvidenceOk ==
  /\ RowsTyped(case.store) /\ RunOk(case.run) /\ DOMAIN case.run = RunFields
  /\ case.run.from \in Int /\ case.run.to \in Int /\ case.run.neutral \in BOOLEAN
  /\ \A n \in DOMAIN case.run.segments : SegmentOk(case.run.segments[n])
  /\ case.scheme = "yearly" =>
       \A d \in case.run.from..case.run.to : CoveredOnce(case.run.segments, d)

\* Drawn evidence is such.
LEMMA EvidenceDrawn ==
  ASSUME EvidenceCase
  PROVE  EvidenceOk
<1>1. PICK p \in {"rising", "turning", "mixed", "flat"}, q \in {"rising", "turning", "mixed"},
           gaps \in {{}, {<<2, 1>>, <<4, 3>>}}, third \in {None, "steel"}, space \in Spaces,
           file \in {None, IndexFile}, neutral \in BOOLEAN, filtered \in BOOLEAN,
           scheme \in {"yearly", "config_split"}, period \in {"train", "all"} :
    LET main == Found!PeriodDates(Days(2, 3), period, None, None)
        run == Run(main, space, file, neutral,
                   Found!Segments(Days(2, 3), scheme, OwnSegment, main))
    IN  /\ file # None => space = "benchmark_excess"
        /\ case = [store |-> FactorStore(p, q, gaps, {<<3, 2>>}, third), scheme |-> scheme,
                   run |-> IF filtered THEN run ELSE [run EXCEPT !.universe = None]]
  BY DEF EvidenceCase
<1> DEFINE time == Days(2, 3)
           main == Found!PeriodDates(time, period, None, None)
           segments == Found!Segments(time, scheme, OwnSegment, main)
           own == [name |-> <<"own">>, from |-> 2, to |-> 5]
           store == FactorStore(p, q, gaps, {<<3, 2>>}, third)
           run == Run(main, space, file, neutral, segments)
<1>2. TimeOk(time) /\ MainOk(main) /\ main[1] \in Int /\ main[2] \in Int
  BY DaysDrawn DEF main
<1>3. OwnSegment \in Seq({own}) /\ \A x \in {own} : SegmentOk(x) /\ x.name = <<"own">>
  BY DEF OwnSegment, SegmentOk
<1>4. RowsTyped(store)
  BY StoreTyped DEF DrawnStore
<1> HIDE DEF time, main, own, store, segments
<1>5. \A n \in DOMAIN segments : SegmentOk(segments[n])
  <2>1. \A x \in Range(segments) : SegmentOk(x)
    BY <1>2, <1>3, SegmentsListed DEF segments
  <2> QED BY <2>1 DEF Range
<1>6. ASSUME scheme = "yearly", NEW d \in main[1]..main[2]
      PROVE  CoveredOnce(segments, d)
  BY <1>2, <1>3, <1>6, YearsCover DEF segments
<1>7. /\ case.store = store /\ case.scheme = scheme
      /\ case.run = IF filtered THEN run ELSE [run EXCEPT !.universe = None]
  <2> HIDE DEF run
  <2> QED BY <1>1 DEF run, segments, main, store, time
<1>8. /\ case.run.from = main[1] /\ case.run.to = main[2] /\ case.run.space = space
      /\ case.run.benchmark = file /\ case.run.neutral = neutral /\ case.run.segments = segments
      /\ case.run.threshold = 1 /\ case.run.horizon = 1 /\ DOMAIN case.run = RunFields
  BY <1>7 DEF Run, RunFields
<1> HIDE DEF run
<1>9. RunOk(case.run)
  <2>1. IndexFile \in Seq([day : Int, value : Numbers])
    BY DEF IndexFile, Numbers
  <2> QED BY <1>8, <2>1 DEF RunOk, Spaces
<1>10. RowsTyped(case.store) /\ case.run.from \in Int /\ case.run.to \in Int /\ case.run.neutral \in BOOLEAN
  BY <1>2, <1>4, <1>7, <1>8
<1>11. ASSUME case.scheme = "yearly"
       PROVE  \A d \in case.run.from..case.run.to : CoveredOnce(case.run.segments, d)
  BY <1>6, <1>7, <1>8, <1>11
<1> QED BY <1>5, <1>8, <1>9, <1>10, <1>11 DEF EvidenceOk

\* The property of the evidence.
LEMMA EvidenceOfSegments ==
  ASSUME EvidenceOk
  PROVE  SegmentsOf(EvidenceFor(case.run))
<1> DEFINE found == Found!Evidence(case.store, case.run)
           rows == Found!Examined(case.store, case.run)
<1>1. SUFFICES ASSUME found # None PROVE SegmentsOf(found)
  BY DEF EvidenceFor, SegmentsOf
<1>2. ASSUME NEW n \in DOMAIN case.run.segments
      PROVE  OwnOf(EvidenceFor(Alone(case.run, case.run.segments[n])), found.segments[n])
  BY <1>1, AloneIsShorter, SegmentIsRun DEF EvidenceOk, OwnOf, EvidenceFor
<1>3. found.summary.monthlyMean
        = Found!Average(found.months, Found!Known(found.months, DOMAIN found.months))
  <2>1. MadeOf(found, rows, case.run)
    BY <1>1, EvidenceHasRows
  <2>2. RowsTyped(rows)
    BY ExaminedTyped DEF EvidenceOk, Labelled
  <2> HIDE DEF rows, found
  <2> QED BY <2>1, <2>2, MonthsAgree DEF MadeOf
<1> QED BY <1>2, <1>3 DEF SegmentsOf

\* Drawn evidence has the property of its segments.
LEMMA SegmentsHold ==
  ASSUME EvidenceCase
  PROVE  SegmentsAreRuns
BY EvidenceDrawn, EvidenceOfSegments DEF EvidenceOk, CoveredOnce,
   SegmentsAreRuns

\* A drawn selection has the property of its profile.
LEMMA SelectionHolds ==
  ASSUME SelectionCase
  PROVE  SelectionJustified
BY SelectionDrawn, SelectionIsJustified DEF SelectionJustified

-----------------------------------------------------------------------------
(* The weights of a rebalance: fractions and their sums.                   *)

\* Numerator and denominator of a weight.
IsFraction(v) == v.n \in Nat /\ v.d \in Nat \ {0}

\* The weight v is k / D.
Is(v, k, D) == v.n * D = k * v.d

\* Reducing a fraction keeps its value (Fraction divides by Euclid's number).
LEMMA Reduced ==
  ASSUME NEW n \in Nat, NEW d \in Nat \ {0}
  PROVE  IsFraction(Weights!Fraction(n, d)) /\ Is(Weights!Fraction(n, d), n, d)
<1> DEFINE g == Weights!Gcd[<<n, d>>]
<1>1. IsGcd(Weights!Gcd)
  BY GcdExists, Zenon DEF IsGcd, Weights!Gcd
<1>2. g \in Nat \ {0} /\ Divides(g, n) /\ Divides(g, d)
  <2> DEFINE G == Weights!Gcd
  <2>1. G[<<n, d>>] \in Nat /\ Divides(G[<<n, d>>], n) /\ Divides(G[<<n, d>>], d)
        /\ G[<<n, d>>] # 0
    BY <1>1, GcdDivides DEF G
  <2> QED BY <2>1
<1>3. Weights!Fraction(n, d) = [n |-> n \div g, d |-> d \div g]
  BY DEF Weights!Fraction
<1> HIDE DEF g
<1>4. PICK p \in Nat, q \in Nat : n = g * p /\ d = g * q
  BY <1>2 DEF Divides
<1>5. n \div g = p /\ d \div g = q
  BY <1>2, <1>4
<1>6. q # 0
  BY <1>2, <1>4
<1>7. p * (g * q) = (g * p) * q
  BY <1>2
<1> QED BY <1>3, <1>4, <1>5, <1>6, <1>7 DEF IsFraction, Is

IsTotal(g, f, S) ==
  g = [s \in SUBSET S |-> IF s = {} THEN Weights!Zero
                          ELSE Weights!Plus(f[Pick(s)], g[s \ {Pick(s)}])]

\* The table of the fold of Plus, from which a sum of fractions is read, is
\* unique.
LEMMA TotalUnique ==
  ASSUME NEW f, NEW S, IsFiniteSet(S), NEW g, NEW h, IsTotal(g, f, S), IsTotal(h, f, S)
  PROVE  g = h
<1> DEFINE B == {s \in SUBSET S : g[s] # h[s]}
<1>1. ASSUME B # {} PROVE FALSE
  <2>1. PICK T \in B : \A U \in B : U \subseteq T => U = T
    <3> HIDE DEF B
    <3>1. B \in SUBSET (SUBSET S)
      BY DEF B
    <3> QED BY <1>1, <3>1, SmallestSet
  <2>2. T # {}
    BY DEF IsTotal
  <2>3. g[T \ {Pick(T)}] = h[T \ {Pick(T)}]
    BY <2>1, <2>2, PickIsIn
  <2> QED BY <2>2, <2>3 DEF IsTotal
<1> QED BY <1>1 DEF IsTotal

\* A table serves for every subset.
LEMMA TotalRestricted ==
  ASSUME NEW f, NEW S, NEW g, IsTotal(g, f, S), NEW T \in SUBSET S
  PROVE  IsTotal([s \in SUBSET T |-> g[s]], f, T)
BY DEF IsTotal

\* Every finite set has a table, as for sums of numbers (SumExists).
LEMMA TotalExists ==
  ASSUME NEW f, NEW S, IsFiniteSet(S)
  PROVE  \E g : IsTotal(g, f, S)
<1> DEFINE B == {s \in SUBSET S : ~\E g : IsTotal(g, f, s)}
<1>1. SUFFICES ASSUME B # {} PROVE FALSE
  OBVIOUS
<1>2. PICK T \in B : \A U \in B : U \subseteq T => U = T
  <2> HIDE DEF B
  <2>1. B \in SUBSET (SUBSET S)
    BY DEF B
  <2> QED BY <1>1, <2>1, SmallestSet
<1>3. T \subseteq S /\ ~\E g : IsTotal(g, f, T)
  OBVIOUS
<1>4. \A U \in SUBSET T : U # T => \E g : IsTotal(g, f, U)
  BY <1>2
<1> HIDE DEF B
<1> DEFINE table(U) == CHOOSE g : IsTotal(g, f, U)
           below(s) == IF s = {} THEN Weights!Zero
                       ELSE Weights!Plus(f[Pick(s)], table(s \ {Pick(s)})[s \ {Pick(s)}])
           g == [s \in SUBSET T |-> below(s)]
<1>5. ASSUME NEW s \in SUBSET T, s # {}
      PROVE  g[s] = Weights!Plus(f[Pick(s)], g[s \ {Pick(s)}])
  <2> DEFINE u == s \ {Pick(s)}
  <2>1. u \in SUBSET T /\ u # T /\ IsFiniteSet(u)
    BY <1>3, <1>5, PickIsIn, FS_Subset
  <2>2. IsTotal(table(u), f, u)
    BY <1>4, <2>1
  <2>3. table(u)[u] = below(u)
    <3>1. CASE u = {}
      BY <2>2, <3>1 DEF IsTotal
    <3>2. CASE u # {}
      <4> DEFINE v == u \ {Pick(u)}
      <4>1. v \in SUBSET u /\ v \in SUBSET T /\ v # T /\ IsFiniteSet(v)
        BY <2>1, <3>2, PickIsIn, FS_Subset
      <4>2. IsTotal(table(v), f, v)
        BY <1>4, <4>1
      <4>3. IsTotal([s_1 \in SUBSET v |-> table(u)[s_1]], f, v)
        BY <2>2, <4>1, TotalRestricted
      <4>4. table(v) = [s_1 \in SUBSET v |-> table(u)[s_1]]
        BY <4>1, <4>2, <4>3, TotalUnique
      <4>5. table(u)[u] = Weights!Plus(f[Pick(u)], table(u)[v])
        BY <2>2, <3>2 DEF IsTotal
      <4> QED BY <3>2, <4>4, <4>5
    <3> QED BY <3>1, <3>2
  <2>4. g[u] = below(u)
    BY <2>1
  <2> QED BY <1>5, <2>3, <2>4
<1>6. g[{}] = Weights!Zero
  OBVIOUS
<1>7. g = [s \in SUBSET T |-> g[s]]
  OBVIOUS
<1> HIDE DEF g
<1>8. g = [s \in SUBSET T |-> IF s = {} THEN Weights!Zero
                            ELSE Weights!Plus(f[Pick(s)], g[s \ {Pick(s)}])]
  BY <1>5, <1>6, <1>7
<1> QED BY <1>3, <1>8 DEF IsTotal

\* A sum of fractions is read from its table.
LEMMA TotalIsFold ==
  ASSUME NEW f, NEW S
  PROVE  Weights!SumOfFractions(f, S) = (CHOOSE g : IsTotal(g, f, S))[S]
BY Zenon DEF Weights!SumOfFractions, Weights!FoldFunctionOnSet, Weights!MapThenFoldSet, IsTotal, Pick

\* A sum of fractions is the recursion that it is written for.
LEMMA TotalValue ==
  ASSUME NEW f, NEW S, IsFiniteSet(S)
  PROVE  Weights!SumOfFractions(f, S) =
           IF S = {} THEN Weights!Zero
           ELSE Weights!Plus(f[Pick(S)], Weights!SumOfFractions(f, S \ {Pick(S)}))
<1> DEFINE g == CHOOSE h : IsTotal(h, f, S)
           T == S \ {Pick(S)}
<1>1. IsTotal(g, f, S) /\ Weights!SumOfFractions(f, S) = g[S]
  BY TotalExists, TotalIsFold
<1>2. T \in SUBSET S /\ IsFiniteSet(T)
  BY FS_Subset
<1> HIDE DEF g
<1>3. Weights!SumOfFractions(f, T) = g[T]
  <2> DEFINE h == CHOOSE k : IsTotal(k, f, T)
             r == [s \in SUBSET T |-> g[s]]
  <2> HIDE DEF T
  <2>1. IsTotal(h, f, T) /\ Weights!SumOfFractions(f, T) = h[T]
    BY <1>2, TotalExists, TotalIsFold
  <2>2. IsTotal(r, f, T)
    BY <1>1, <1>2, TotalRestricted
  <2>3. r[T] = g[T]
    OBVIOUS
  <2> HIDE DEF h, r
  <2> QED BY <1>2, <2>1, <2>2, <2>3, TotalUnique
<1> QED BY <1>1, <1>3 DEF IsTotal

\* Weights compare as their values do.
LEMMA Compared ==
  ASSUME NEW a, NEW b, IsFraction(a), IsFraction(b), NEW k \in Nat, NEW l \in Nat,
         NEW D \in Nat \ {0}, NEW E \in Nat \ {0}, Is(a, k, D), Is(b, l, E)
  PROVE  Weights!Leq(a, b) <=> k * E <= l * D
<1> DEFINE m == a.n
           d == a.d
           n == b.n
           e == b.d
<1>1. /\ m \in Nat /\ d \in Nat \ {0} /\ n \in Nat /\ e \in Nat \ {0}
      /\ m * D = k * d /\ n * E = l * e
  BY DEF IsFraction, Is
<1>2. Weights!Leq(a, b) <=> m * e <= n * d
  BY DEF Weights!Leq
<1> HIDE DEF m, d, n, e
<1>3. (m * e) * (D * E) = (k * E) * (d * e)
  BY <1>1, Regroup
<1>4. (n * d) * (D * E) = (l * D) * (d * e)
  BY <1>1, Regroup
<1>5. /\ m * e \in Int /\ n * d \in Int /\ k * E \in Int /\ l * D \in Int
      /\ D * E \in Nat \ {0} /\ d * e \in Nat \ {0}
  BY <1>1, ProductType
<1>6. (m * e) * (D * E) <= (n * d) * (D * E) <=> m * e <= n * d
  BY <1>5, CancelFactor
<1>7. (k * E) * (d * e) <= (l * D) * (d * e) <=> k * E <= l * D
  BY <1>5, CancelFactor
<1> QED BY <1>2, <1>3, <1>4, <1>6, <1>7

\* Nothing is nothing over every denominator.
LEMMA ZeroIs == IsFraction(Weights!Zero) /\ \A D \in Nat : Is(Weights!Zero, 0, D)
BY Reduced DEF Weights!Zero, IsFraction, Is

\* A value over one denominator is a value over another in proportion.
LEMMA OverAnother ==
  ASSUME NEW v, IsFraction(v), NEW k \in Nat, NEW l \in Nat,
         NEW D \in Nat \ {0}, NEW E \in Nat \ {0}, Is(v, k, D)
  PROVE  Is(v, l, E) <=> k * E = l * D
<1> DEFINE m == v.n
           d == v.d
<1>1. m \in Nat /\ d \in Nat \ {0} /\ m * D = k * d
  BY DEF IsFraction, Is
<1>2. Is(v, l, E) <=> m * E = l * d
  BY DEF Is
<1> HIDE DEF m, d
<1>3. /\ (m * E) * D = (k * E) * d /\ (l * d) * D = (l * D) * d
  BY <1>1
<1>4. m * E \in Int /\ l * d \in Int /\ k * E \in Int /\ l * D \in Int
  BY <1>1, ProductType
<1>5. (m * E) * D = (l * d) * D <=> m * E = l * d
  BY <1>4, CancelFactor
<1>6. (k * E) * d = (l * D) * d <=> k * E = l * D
  BY <1>1, <1>4, CancelFactor
<1> QED BY <1>2, <1>3, <1>5, <1>6

\* The sum of two weights has the sum of their values.
LEMMA PlusIs ==
  ASSUME NEW a, NEW b, IsFraction(a), IsFraction(b), NEW k \in Nat, NEW l \in Nat,
         NEW D \in Nat \ {0}, Is(a, k, D), Is(b, l, D)
  PROVE  IsFraction(Weights!Plus(a, b)) /\ Is(Weights!Plus(a, b), k + l, D)
<1> DEFINE m == a.n
           d == a.d
           n == b.n
           e == b.d
           x == m * e + n * d
<1>1. /\ m \in Nat /\ d \in Nat \ {0} /\ n \in Nat /\ e \in Nat \ {0}
      /\ m * D = k * d /\ n * D = l * e
  BY DEF IsFraction, Is
<1>2. Weights!Plus(a, b) = Weights!Fraction(x, d * e)
  BY DEF Weights!Plus
<1> HIDE DEF m, d, n, e
<1>3. x \in Nat /\ d * e \in Nat \ {0} /\ m * e \in Nat /\ n * d \in Nat
  BY <1>1, ProductType
<1>4. x * D = (k + l) * (d * e)
  BY <1>1, <1>3
<1> DEFINE v == Weights!Fraction(x, d * e)
<1> HIDE DEF x
<1>5. IsFraction(v) /\ Is(v, x, d * e)
  BY <1>3, Reduced
<1> HIDE DEF v
<1>6. Is(v, k + l, D)
  BY <1>3, <1>4, <1>5, OverAnother
<1> QED BY <1>2, <1>5, <1>6 DEF v

\* And so has the sum of the weights of a set.
LEMMA TotalIs ==
  ASSUME NEW S, IsFiniteSet(S), NEW w, NEW k, NEW D \in Nat \ {0},
         \A x \in S : k[x] \in Nat /\ IsFraction(w[x]) /\ Is(w[x], k[x], D)
  PROVE  /\ IsFraction(Weights!SumOfFractions(w, S))
         /\ Is(Weights!SumOfFractions(w, S), SumFunctionOnSet(k, S), D)
         /\ SumFunctionOnSet(k, S) \in Nat
<1> DEFINE Good(s) == /\ IsFraction(Weights!SumOfFractions(w, s))
                      /\ Is(Weights!SumOfFractions(w, s), SumFunctionOnSet(k, s), D)
           B == {s \in SUBSET S : ~Good(s)}
<1>1. SUFFICES ASSUME B # {} PROVE FALSE
  BY SumNat
<1>2. PICK T \in B : \A U \in B : U \subseteq T => U = T
  <2> HIDE DEF B
  <2>1. B \in SUBSET (SUBSET S)
    BY DEF B
  <2> QED BY <1>1, <2>1, SmallestSet
<1>3. IsFiniteSet(T) /\ T # {} /\ T \subseteq S
  <2>1. Good({})
    BY TotalValue, SumEmpty, FS_EmptySet, ZeroIs
  <2>2. T # {} /\ T \subseteq S
    BY <2>1
  <2> HIDE DEF B
  <2> QED BY <2>2, FS_Subset
<1> DEFINE c == Pick(T)
           U == T \ {c}
<1>4. c \in T /\ U \subseteq S /\ IsFiniteSet(U)
  BY <1>3, PickIsIn, FS_Subset
<1>5. Good(U)
  <2> HIDE DEF Good
  <2> QED BY <1>2, <1>4
<1>6. /\ Weights!SumOfFractions(w, T) = Weights!Plus(w[c], Weights!SumOfFractions(w, U))
      /\ SumFunctionOnSet(k, T) = k[c] + SumFunctionOnSet(k, U)
  BY <1>3, SumValue, TotalValue
<1>7. SumFunctionOnSet(k, U) \in Nat
  BY <1>4, SumNat
<1>8. ~Good(T)
  BY <1>2
<1> DEFINE total == Weights!SumOfFractions(w, U)
           sum == SumFunctionOnSet(k, U)
<1>9. IsFraction(total) /\ Is(total, sum, D)
  BY <1>5
<1>10. k[c] \in Nat /\ IsFraction(w[c]) /\ Is(w[c], k[c], D) /\ sum \in Nat
  BY <1>3, <1>4, <1>7
<1> HIDE DEF total, sum, c
<1>11. IsFraction(Weights!Plus(w[c], total)) /\ Is(Weights!Plus(w[c], total), k[c] + sum, D)
  BY <1>9, <1>10, PlusIs
<1> QED BY <1>6, <1>8, <1>11 DEF total, sum

-----------------------------------------------------------------------------
(* What a round shares out, for names with any key: the name itself in     *)
(* cap_weights, the group in cap_group_weights.                            *)

Sharers(key, p) == WithKey(key, Names, p)
Keys(key, S) == {key[x] : x \in S}

\* Whole keys are settled.
Closed(key, S) == \A x \in S, y \in Names : key[x] = key[y] => y \in S

\* Names are weighted.
Weighted(w) == \A x \in Names : w[x] \in Nat \ {0}

(***************************************************************************)
(* The sharers of a settled key have the cap together, so that all that is *)
(* settled has it once for each key.                                       *)
(***************************************************************************)
LEMMA SettledShares ==
  ASSUME NEW key, NEW w, Weighted(w), NEW R \in SUBSET Names, Closed(key, R),
         NEW cap \in Nat, NEW D \in Nat, NEW k, \A x \in Names : k[x] \in Nat,
         \A x \in Names \ R :
           k[x] * (SumFunctionOnSet(w, Sharers(key, key[x])) * Unit) = (w[x] * cap) * D
  PROVE  /\ \A p \in Keys(key, Names \ R) : SumFunctionOnSet(k, Sharers(key, p)) * Unit = cap * D
         /\ SumFunctionOnSet(k, Names \ R) * Unit
              = (cap * Cardinality(Keys(key, Names \ R))) * D
<1> DEFINE P == Keys(key, Names \ R)
<1>1. IsFiniteSet(Names) /\ Unit \in Nat \ {0}
  BY InputAssumption
<1>2. \A p : IsFiniteSet(Sharers(key, p)) /\ Sharers(key, p) \subseteq Names
  BY <1>1, FS_Subset DEF Sharers, WithKey
<1>3. IsFiniteSet(P)
  <2>1. IsFiniteSet(Names \ R)
    BY <1>1, FS_Subset
  <2> QED BY <2>1, KeysFinite DEF Keys
<1>4. ASSUME NEW p \in P PROVE SumFunctionOnSet(k, Sharers(key, p)) * Unit = cap * D
  <2> DEFINE S == Sharers(key, p)
             W == SumFunctionOnSet(w, S)
             K == SumFunctionOnSet(k, S)
  <2>1. PICK x \in Names \ R : p = key[x]
    BY DEF Keys
  <2>2. S \subseteq Names \ R /\ S # {} /\ IsFiniteSet(S)
    BY <1>2, <2>1 DEF Closed, Sharers, WithKey
  <2>3. \A s \in S : w[s] \in Nat \ {0} /\ k[s] \in Nat
                     /\ k[s] * (W * Unit) = (w[s] * cap) * D
    BY <2>2 DEF Sharers, WithKey, Weighted
  <2> HIDE DEF S
  <2>4. W \in Nat \ {0} /\ K \in Nat
    BY <2>2, <2>3, SumPositive, SumNat
  <2> HIDE DEF W
  <2>5. W * Unit \in Nat /\ cap * D \in Nat
    BY <1>1, <2>4
  <2>6. \A s \in S : k[s] * (W * Unit) = w[s] * (cap * D)
    BY <2>3
  <2>7. K * (W * Unit) = W * (cap * D)
    BY <2>2, <2>3, <2>5, <2>6, SumProportional DEF Balance, W
  <2> HIDE DEF K
  <2>8. K * Unit = cap * D
    BY <1>1, <2>4, <2>5, <2>7, CancelFactor
  <2> QED BY <2>8 DEF K, S
<1>5. SumFunctionOnSet(k, Names \ R) * Unit = (cap * Cardinality(P)) * D
  <2> DEFINE h == [p \in P |-> SumFunctionOnSet(k, Sharers(key, p))]
             one == [p \in P |-> 1]
  <2>1. Keyed(key, Names, P) = Names \ R
    BY DEF Keys, Closed, Keyed
  <2>2. SumFunctionOnSet(h, P) = SumFunctionOnSet(k, Keyed(key, Names, P))
    <3>1. \A p \in P : h[p] = SumFunctionOnSet(k, WithKey(key, Names, p))
      BY DEF Sharers
    <3>2. \A x \in Names : k[x] \in Int
      OBVIOUS
    <3> HIDE DEF h, P
    <3> QED BY <1>1, <1>3, <3>1, <3>2, SumGrouped
  <2>3. \A p \in P : h[p] \in Int /\ one[p] \in Int /\ h[p] * Unit = one[p] * (cap * D)
    BY <1>2, <1>4, SumNat
  <2>4. SumFunctionOnSet(one, P) = 1 * Cardinality(P)
    <3> HIDE DEF P
    <3>1. \A p \in P : one[p] = 1
      OBVIOUS
    <3> HIDE DEF one
    <3> QED BY <1>3, <3>1, SumConstant
  <2>5. cap * D \in Nat /\ Cardinality(P) \in Nat
    BY <1>3, FS_CardinalityType
  <2> HIDE DEF h, one, P
  <2>6. SumFunctionOnSet(h, P) * Unit = SumFunctionOnSet(one, P) * (cap * D)
    <3>1. Unit \in Nat /\ cap * D \in Nat
      BY <1>1, <2>5
    <3>2. \A p \in P : Balance(h[p], Unit, one[p], cap * D)
      BY <2>3 DEF Balance
    <3>3. Balance(SumFunctionOnSet(h, P), Unit, SumFunctionOnSet(one, P), cap * D)
      BY <1>3, <2>3, <3>1, <3>2, SumProportional
    <3> QED BY <3>3 DEF Balance
  <2>7. (1 * Cardinality(P)) * (cap * D) = (cap * Cardinality(P)) * D
    BY <2>5
  <2> QED BY <2>1, <2>2, <2>4, <2>6, <2>7
<1> QED BY <1>4, <1>5

(***************************************************************************)
(* The names not yet settled share what is left, any part of them its part.*)
(***************************************************************************)
LEMMA RestShares ==
  ASSUME NEW w, Weighted(w), NEW R \in SUBSET Names,
         NEW B \in Nat, NEW D \in Nat, NEW k, \A x \in Names : k[x] \in Nat,
         \A x \in R : k[x] * (SumFunctionOnSet(w, R) * Unit) = (w[x] * B) * D
  PROVE  /\ \A T \in SUBSET R :
              SumFunctionOnSet(k, T) * (SumFunctionOnSet(w, R) * Unit)
                = (SumFunctionOnSet(w, T) * B) * D
         /\ R # {} => SumFunctionOnSet(k, R) * Unit = B * D
<1> DEFINE W == SumFunctionOnSet(w, R)
<1>1. Unit \in Nat \ {0} /\ IsFiniteSet(R)
  BY InputAssumption, FS_Subset
<1>2. W \in Nat /\ (R # {} => W > 0)
  BY <1>1, SumPositive DEF Weighted
<1>3. \A x \in R : k[x] * (W * Unit) = (w[x] * B) * D
  OBVIOUS
<1> HIDE DEF W
<1>4. ASSUME NEW T \in SUBSET R
      PROVE  /\ SumFunctionOnSet(k, T) * (W * Unit) = (SumFunctionOnSet(w, T) * B) * D
             /\ SumFunctionOnSet(k, T) \in Nat
  <2>1. IsFiniteSet(T) /\ \A x \in T : k[x] \in Nat /\ w[x] \in Nat
    BY <1>1, FS_Subset DEF Weighted
  <2>2. \A x \in T : k[x] \in Int /\ w[x] \in Int /\ k[x] * (W * Unit) = w[x] * (B * D)
    BY <1>3, <2>1
  <2>3. W * Unit \in Nat /\ B * D \in Nat
    BY <1>1, <1>2
  <2>4. SumFunctionOnSet(k, T) * (W * Unit) = SumFunctionOnSet(w, T) * (B * D)
    <3>1. \A x \in T : Balance(k[x], W * Unit, w[x], B * D)
      BY <2>2 DEF Balance
    <3>2. Balance(SumFunctionOnSet(k, T), W * Unit, SumFunctionOnSet(w, T), B * D)
      BY <2>1, <2>2, <2>3, <3>1, SumProportional
    <3> QED BY <3>2 DEF Balance
  <2> QED BY <2>1, <2>4, SumNat
<1>5. ASSUME R # {} PROVE SumFunctionOnSet(k, R) * Unit = B * D
  <2> DEFINE K == SumFunctionOnSet(k, R)
  <2>1. K * (W * Unit) = (W * B) * D /\ K \in Nat
    BY <1>4 DEF W
  <2> HIDE DEF K
  <2>2. (K * Unit) * W = (B * D) * W
    BY <1>1, <1>2, <2>1
  <2>3. K * Unit \in Int /\ B * D \in Int /\ W \in Nat \ {0}
    BY <1>1, <1>2, <1>5, <2>1
  <2>4. K * Unit = B * D
    BY <2>2, <2>3, CancelFactor
  <2> QED BY <2>4 DEF K
<1> QED BY <1>4, <1>5 DEF W

(***************************************************************************)
(* The keys whose shares exceed the cap cannot exceed it all together: a   *)
(* round that caps them leaves a budget.                                   *)
(***************************************************************************)
LEMMA RoundFits ==
  ASSUME NEW key, NEW w, Weighted(w), NEW R \in SUBSET Names,
         NEW cap \in Nat, NEW B \in Nat, NEW P \in SUBSET Keys(key, R), P # {},
         \A p \in P : SumFunctionOnSet(w, WithKey(key, R, p)) * B
                        > cap * SumFunctionOnSet(w, R)
  PROVE  cap * Cardinality(P) < B
<1> DEFINE W == SumFunctionOnSet(w, R)
           h == [p \in P |-> SumFunctionOnSet(w, WithKey(key, R, p))]
           one == [p \in P |-> 1]
           n == Cardinality(P)
           H == SumFunctionOnSet(h, P)
<1>1. IsFiniteSet(R) /\ IsFiniteSet(P)
  <2>1. IsFiniteSet(R)
    BY InputAssumption, FS_Subset
  <2>2. IsFiniteSet(Keys(key, R))
    BY <2>1, KeysFinite DEF Keys
  <2> QED BY <2>1, <2>2, FS_Subset
<1>2. /\ W \in Nat /\ W > 0
      /\ \A T \in SUBSET R : SumFunctionOnSet(w, T) \in Nat /\ SumFunctionOnSet(w, T) <= W
  <2> QED BY <1>1, SumPositive DEF Weighted, Keys
<1>3. \A p \in P : h[p] \in Nat /\ h[p] * B > cap * W
  BY <1>2 DEF WithKey
<1>4. H = SumFunctionOnSet(w, Keyed(key, R, P))
  BY <1>1, SumGrouped DEF Weighted
<1>5. H \in Nat /\ H <= W
  BY <1>2, <1>4 DEF Keyed
<1>6. n \in Nat /\ n > 0
  BY <1>1, FS_CardinalityType, FS_EmptySet
<1>7. SumFunctionOnSet(one, P) = 1 * n
  BY <1>1, SumConstant
<1> DEFINE c == cap * W + 1
<1>8. c \in Nat
  BY <1>2
<1>9. \A p \in P : one[p] \in Int /\ h[p] \in Int /\ c * one[p] <= B * h[p]
  BY <1>2, <1>3
<1> HIDE DEF W, h, one, n, c
<1>10. c * n <= B * H
  BY <1>1, <1>6, <1>7, <1>8, <1>9, SumScaled
<1> HIDE DEF H
<1>11. c * n = (cap * n) * W + n
  BY <1>2, <1>6 DEF c
<1>12. B * H <= B * W
  BY <1>2, <1>5
<1>13. (cap * n) * W < B * W
  BY <1>2, <1>5, <1>6, <1>10, <1>11, <1>12
<1>14. cap * n < B
  BY <1>2, <1>6, <1>13, CancelFactor
<1> QED BY <1>14 DEF n

\* All weights are multiples of one fraction.
LEMMA CommonDenominator ==
  ASSUME NEW F, \A x \in Names : IsFraction(F[x])
  PROVE  \E D \in Nat \ {0}, k \in [Names -> Nat] : \A x \in Names : Is(F[x], k[x], D)
<1> DEFINE d == [x \in Names |-> F[x].d]
<1>1. PICK D \in Nat \ {0} : \A x \in Names : \E m \in Nat : D = d[x] * m
  <2>1. \A x \in Names : d[x] \in Nat \ {0}
    BY DEF IsFraction
  <2>2. IsFiniteSet(Names)
    BY InputAssumption
  <2> HIDE DEF d
  <2> QED BY <2>1, <2>2, CommonMultiple
<1> DEFINE m == [x \in Names |-> CHOOSE i \in Nat : D = d[x] * i]
           k == [x \in Names |-> F[x].n * m[x]]
<1>2. \A x \in Names : m[x] \in Nat /\ D = F[x].d * m[x]
  BY <1>1
<1> HIDE DEF m
<1>3. \A x \in Names : k[x] \in Nat /\ Is(F[x], k[x], D)
  <2> SUFFICES ASSUME NEW x \in Names
               PROVE  F[x].n * m[x] \in Nat /\ Is(F[x], F[x].n * m[x], D)
    OBVIOUS
  <2> DEFINE n == F[x].n
             e == F[x].d
             i == m[x]
  <2>1. n \in Nat /\ e \in Nat /\ i \in Nat /\ D = e * i
    BY <1>2 DEF IsFraction
  <2>2. Is(F[x], n * i, D) <=> n * D = (n * i) * e
    BY DEF Is
  <2> HIDE DEF n, e, i
  <2>3. n * (e * i) = (n * i) * e /\ n * i \in Nat
    BY <2>1
  <2>4. n * i \in Nat /\ Is(F[x], n * i, D)
    BY <2>1, <2>2, <2>3
  <2> QED BY <2>4 DEF n, i
<1>4. k \in [Names -> Nat]
  BY <1>3
<1> HIDE DEF k
<1> QED BY <1>3, <1>4

(***************************************************************************)
(* What a loop keeps: the sharers of a settled key have the cap together,  *)
(* in proportion to their weights, and the caps of the settled keys and    *)
(* the remaining budget are the whole.                                     *)
(***************************************************************************)
Shared(key, cap, w, R, B, F) ==
  /\ Weighted(w) /\ R \in SUBSET Names /\ Closed(key, R)
  /\ cap \in Nat /\ B \in Nat \ {0} /\ cap * Cardinality(Keys(key, Names \ R)) + B = Unit
  /\ \A x \in Names : IsFraction(F[x])
  /\ \A x \in R : F[x] = Weights!Zero
  /\ \A x \in Names \ R :
       Is(F[x], w[x] * cap, SumFunctionOnSet(w, Sharers(key, key[x])) * Unit)

\* The shares of settled names, over a common denominator.
LEMMA SettledValues ==
  ASSUME NEW key, NEW cap, NEW w, NEW R, NEW B, NEW F, Shared(key, cap, w, R, B, F),
         NEW D \in Nat \ {0}, NEW k \in [Names -> Nat],
         \A x \in Names \ R : Is(F[x], k[x], D)
  PROVE  \A x \in Names \ R :
           k[x] * (SumFunctionOnSet(w, Sharers(key, key[x])) * Unit) = (w[x] * cap) * D
<1> SUFFICES ASSUME NEW x \in Names \ R
             PROVE k[x] * (SumFunctionOnSet(w, Sharers(key, key[x])) * Unit) = (w[x] * cap) * D
  OBVIOUS
<1> DEFINE W == SumFunctionOnSet(w, Sharers(key, key[x]))
<1>1. Unit \in Nat \ {0} /\ IsFiniteSet(Sharers(key, key[x]))
  BY InputAssumption, FS_Subset DEF Sharers, WithKey
<1>2. W \in Nat \ {0}
  BY <1>1, SumPositive DEF Shared, Weighted, Sharers, WithKey
<1>3. Is(F[x], w[x] * cap, W * Unit) /\ IsFraction(F[x]) /\ Is(F[x], k[x], D)
  BY DEF Shared
<1> HIDE DEF W
<1>4. w[x] * cap \in Nat /\ W * Unit \in Nat \ {0} /\ k[x] \in Nat
  BY <1>1, <1>2, ProductType DEF Shared, Weighted
<1>5. k[x] * (W * Unit) = (w[x] * cap) * D
  BY <1>3, <1>4, OverAnother
<1> QED BY <1>5 DEF W

\* What is settled together with the budget that remains is the whole.
LEMMA SettledAndBudget ==
  ASSUME NEW key, NEW cap, NEW w, NEW R, NEW B, NEW F, Shared(key, cap, w, R, B, F),
         NEW D \in Nat \ {0}, NEW k \in [Names -> Nat],
         \A x \in Names \ R : Is(F[x], k[x], D)
  PROVE  /\ \A p \in Keys(key, Names \ R) : SumFunctionOnSet(k, Sharers(key, p)) * Unit = cap * D
         /\ SumFunctionOnSet(k, Names \ R) * Unit + B * D = Unit * D
         /\ SumFunctionOnSet(k, Names) = SumFunctionOnSet(k, Names \ R) + SumFunctionOnSet(k, R)
         /\ SumFunctionOnSet(k, Names \ R) \in Nat /\ SumFunctionOnSet(k, R) \in Nat
<1> DEFINE G == Cardinality(Keys(key, Names \ R))
<1>1. /\ Weighted(w) /\ R \in SUBSET Names /\ Closed(key, R) /\ cap \in Nat /\ B \in Nat
      /\ cap * G + B = Unit
  BY DEF Shared
<1>2. \A x \in Names \ R :
        k[x] * (SumFunctionOnSet(w, Sharers(key, key[x])) * Unit) = (w[x] * cap) * D
  BY SettledValues
<1>3. /\ \A p \in Keys(key, Names \ R) : SumFunctionOnSet(k, Sharers(key, p)) * Unit = cap * D
      /\ SumFunctionOnSet(k, Names \ R) * Unit = (cap * G) * D
  BY <1>1, <1>2, SettledShares
<1>4. IsFiniteSet(Names) /\ IsFiniteSet(Names \ R) /\ IsFiniteSet(R) /\ Unit \in Nat
  BY <1>1, InputAssumption, FS_Subset
<1>5. SumFunctionOnSet(k, Names \ R) \in Nat /\ SumFunctionOnSet(k, R) \in Nat
  BY <1>1, <1>4, SumNat
<1>6. SumFunctionOnSet(k, Names) = SumFunctionOnSet(k, R) + SumFunctionOnSet(k, Names \ R)
  BY <1>1, <1>4, SumSplit
<1>7. G \in Nat
  BY <1>4, KeysFinite, FS_CardinalityType DEF Keys
<1> HIDE DEF G
<1>8. (cap * G) * D + B * D = Unit * D
  BY <1>1, <1>7
<1>9. SumFunctionOnSet(k, Names) = SumFunctionOnSet(k, Names \ R) + SumFunctionOnSet(k, R)
  BY <1>5, <1>6
<1> QED BY <1>3, <1>5, <1>8, <1>9, Zenon

\* A loop under way never promises more than the whole.
LEMMA SharedWithin ==
  ASSUME NEW key, NEW cap, NEW w, NEW R, NEW B, NEW F, Shared(key, cap, w, R, B, F)
  PROVE  Weights!Leq(Weights!SumOfFractions(F, Names), Weights!Fraction(1, 1))
<1>1. PICK D \in Nat \ {0}, k \in [Names -> Nat] : \A x \in Names : Is(F[x], k[x], D)
  BY CommonDenominator DEF Shared
<1>2. /\ \A p \in Keys(key, Names \ R) : SumFunctionOnSet(k, Sharers(key, p)) * Unit = cap * D
      /\ SumFunctionOnSet(k, Names \ R) * Unit + B * D = Unit * D
      /\ SumFunctionOnSet(k, Names) = SumFunctionOnSet(k, Names \ R) + SumFunctionOnSet(k, R)
      /\ SumFunctionOnSet(k, Names \ R) \in Nat /\ SumFunctionOnSet(k, R) \in Nat
  BY <1>1, SettledAndBudget
<1>3. R \in SUBSET Names /\ B \in Nat /\ Unit \in Nat \ {0} /\ IsFiniteSet(R)
  BY InputAssumption, FS_Subset DEF Shared
<1>4. SumFunctionOnSet(k, R) = 0
  <2>1. ASSUME NEW x \in R PROVE k[x] = 0
    BY <1>1, <1>3, ZeroIs, OverAnother, CancelFactor DEF Shared
  <2> QED BY <1>3, <2>1, SumZero
<1> DEFINE sum == SumFunctionOnSet(k, Names)
<1>5. sum \in Nat /\ sum * Unit + B * D = Unit * D
  BY <1>2, <1>4
<1>6. IsFraction(Weights!SumOfFractions(F, Names)) /\ Is(Weights!SumOfFractions(F, Names), sum, D)
  BY <1>1, InputAssumption, TotalIs DEF Shared
<1> HIDE DEF sum
<1>7. sum * 1 <= 1 * D
  <2>1. sum * Unit <= D * Unit
    BY <1>3, <1>5
  <2> QED BY <1>3, <1>5, <2>1, CancelFactor
<1> QED BY <1>5, <1>6, <1>7, Reduced, Compared

(***************************************************************************)
(* What a loop ends with, as multiples k of 1 / D: the whole is spent      *)
(* unless all keys are settled, no key has more than its cap, and the      *)
(* names that stayed share the remaining budget by their weights.          *)
(***************************************************************************)
Outcome(key, cap, w, R, B, H, D, k) ==
  /\ D \in Nat \ {0} /\ k \in [Names -> Nat]
  /\ \A x \in Names : IsFraction(H[x]) /\ Is(H[x], k[x], D)
  /\ SumFunctionOnSet(k, Names) <= D
  /\ R # {} => SumFunctionOnSet(k, Names) = D
  /\ \A p \in Keys(key, Names) : SumFunctionOnSet(k, Sharers(key, p)) * Unit <= cap * D
  /\ \A p \in Keys(key, Names \ R) : SumFunctionOnSet(k, Sharers(key, p)) * Unit = cap * D
  /\ \A x \in Names \ R :
       k[x] * (SumFunctionOnSet(w, Sharers(key, key[x])) * Unit) = (w[x] * cap) * D
  /\ \A x \in R : k[x] * (SumFunctionOnSet(w, R) * Unit) = (w[x] * B) * D

\* The share of p in what is left is over the cap.
Over(key, cap, w, R, B, p) ==
  SumFunctionOnSet(w, WithKey(key, R, p)) * B > cap * SumFunctionOnSet(w, R)

\* The proposal that a loop leaves when no share is over the cap.
LEMMA LoopEnds ==
  ASSUME NEW key, NEW cap, NEW w, NEW R, NEW B, NEW F, Shared(key, cap, w, R, B, F),
         \A p \in Keys(key, R) : ~Over(key, cap, w, R, B, p),
         NEW H,
         \A x \in Names \ R : H[x] = F[x],
         \A x \in R : H[x] = Weights!Fraction(w[x] * B, SumFunctionOnSet(w, R) * Unit)
  PROVE  \E D, k : Outcome(key, cap, w, R, B, H, D, k)
<1> DEFINE W == SumFunctionOnSet(w, R)
<1>1. /\ R \in SUBSET Names /\ IsFiniteSet(R) /\ IsFiniteSet(Names) /\ Unit \in Nat \ {0}
      /\ B \in Nat \ {0} /\ cap \in Nat /\ Weighted(w) /\ Closed(key, R)
  BY InputAssumption, FS_Subset DEF Shared
<1>2. W \in Nat /\ (R # {} => W \in Nat \ {0})
  BY <1>1, SumPositive DEF Weighted
<1>3. \A x \in R : IsFraction(H[x]) /\ Is(H[x], w[x] * B, W * Unit)
                   /\ w[x] * B \in Nat /\ W * Unit \in Nat \ {0}
  BY <1>1, <1>2, ProductType, Reduced DEF Weighted
<1>4. \A x \in Names : IsFraction(H[x])
  BY <1>3 DEF Shared
<1>5. PICK D \in Nat \ {0}, k \in [Names -> Nat] : \A x \in Names : Is(H[x], k[x], D)
  BY <1>4, CommonDenominator
<1>6. \A x \in Names \ R : Is(F[x], k[x], D)
  BY <1>5
<1>7. /\ \A p \in Keys(key, Names \ R) : SumFunctionOnSet(k, Sharers(key, p)) * Unit = cap * D
      /\ SumFunctionOnSet(k, Names \ R) * Unit + B * D = Unit * D
      /\ SumFunctionOnSet(k, Names) = SumFunctionOnSet(k, Names \ R) + SumFunctionOnSet(k, R)
      /\ SumFunctionOnSet(k, Names \ R) \in Nat /\ SumFunctionOnSet(k, R) \in Nat
  BY <1>5, <1>6, SettledAndBudget, Zenon
<1>8. \A x \in Names \ R :
        k[x] * (SumFunctionOnSet(w, Sharers(key, key[x])) * Unit) = (w[x] * cap) * D
  BY <1>5, <1>6, SettledValues
<1>9. \A x \in R : k[x] * (W * Unit) = (w[x] * B) * D
  BY <1>1, <1>3, <1>5, OverAnother
<1>10. /\ \A T \in SUBSET R :
            SumFunctionOnSet(k, T) * (W * Unit) = (SumFunctionOnSet(w, T) * B) * D
       /\ R # {} => SumFunctionOnSet(k, R) * Unit = B * D
  BY <1>1, <1>5, <1>9, RestShares DEF W
<1> DEFINE settled == SumFunctionOnSet(k, Names \ R)
           rest == SumFunctionOnSet(k, R)
<1>11. /\ SumFunctionOnSet(k, Names) <= D
       /\ R # {} => SumFunctionOnSet(k, Names) = D
  <2>1. /\ SumFunctionOnSet(k, Names) = settled + rest /\ settled \in Nat /\ rest \in Nat
        /\ settled * Unit + B * D = Unit * D
        /\ R # {} => rest * Unit = B * D
        /\ R = {} => rest = 0
    BY <1>7, <1>10, SumEmpty
  <2> HIDE DEF settled, rest
  <2>2. /\ settled \in Nat /\ rest \in Nat /\ D \in Nat /\ B \in Nat /\ Unit \in Nat
        /\ settled + rest \in Int
    BY <1>1, <1>5, <2>1
  <2>3. B * D \in Nat /\ settled * Unit \in Nat /\ rest * Unit \in Nat /\ Unit * D = D * Unit
    BY <2>2
  <2>4. (settled + rest) * Unit = settled * Unit + rest * Unit
    BY <2>2
  <2>5. ASSUME R # {} PROVE settled + rest = D
    <3>1. (settled + rest) * Unit = D * Unit
      BY <2>1, <2>3, <2>4, <2>5
    <3> QED BY <1>1, <2>2, <3>1, CancelFactor
  <2>6. ASSUME R = {} PROVE settled + rest <= D
    BY <1>1, <2>1, <2>2, <2>6, <2>3, <2>4, CancelFactor
  <2> QED BY <2>1, <2>2, <2>5, <2>6
<1>12. ASSUME NEW p \in Keys(key, Names), p \notin Keys(key, Names \ R)
       PROVE  SumFunctionOnSet(k, Sharers(key, p)) * Unit <= cap * D
  <2> DEFINE T == WithKey(key, R, p)
             K == SumFunctionOnSet(k, T)
             V == SumFunctionOnSet(w, T)
  <2>1. p \in Keys(key, R) /\ Sharers(key, p) = T
    BY <1>1, <1>12 DEF Keys, Sharers, WithKey
  <2>2. T \in SUBSET R /\ IsFiniteSet(T)
    BY <1>1, FS_Subset DEF WithKey
  <2>3. K * (W * Unit) = (V * B) * D
    BY <1>10, <2>2
  <2>4. ~(V * B > cap * W)
    BY <2>1 DEF Over
  <2>5. K \in Nat /\ V \in Nat
    BY <1>1, <1>5, <2>2, SumNat DEF Weighted
  <2>6. W \in Nat \ {0}
    BY <1>2, <2>1 DEF Keys
  <2> HIDE DEF T, K, V, W
  <2>7. (K * Unit) * W <= (cap * D) * W
    BY <1>1, <1>5, <2>3, <2>4, <2>5, <2>6, CancelFactor
  <2>8. K * Unit <= cap * D
    BY <1>1, <1>5, <2>5, <2>6, <2>7, CancelFactor
  <2> QED BY <2>1, <2>8 DEF K
<1>13. \A p \in Keys(key, Names) : SumFunctionOnSet(k, Sharers(key, p)) * Unit <= cap * D
  <2>1. cap * D \in Int
    BY <1>1, <1>5
  <2>2. \A p \in Keys(key, Names \ R) : SumFunctionOnSet(k, Sharers(key, p)) * Unit <= cap * D
    BY <1>7, <2>1
  <2> QED BY <1>12, <2>2
<1> QED BY <1>4, <1>5, <1>7, <1>8, <1>9, <1>11, <1>13 DEF Outcome

\* The weights of any names, as a multiple of the common fraction.
LEMMA OutcomeTotal ==
  ASSUME NEW key, NEW cap, NEW w, NEW R, NEW B, NEW H, NEW D, NEW k,
         Outcome(key, cap, w, R, B, H, D, k), NEW S \in SUBSET Names
  PROVE  /\ IsFraction(Weights!SumOfFractions(H, S))
         /\ Is(Weights!SumOfFractions(H, S), SumFunctionOnSet(k, S), D)
         /\ SumFunctionOnSet(k, S) \in Nat
BY InputAssumption, FS_Subset, TotalIs DEF Outcome

\* All the weights together are one at most, and one while names stayed.
LEMMA OutcomeWithin ==
  ASSUME NEW key, NEW cap, NEW w, NEW R, NEW B, NEW H, NEW D, NEW k,
         Outcome(key, cap, w, R, B, H, D, k)
  PROVE  /\ Weights!Leq(Weights!SumOfFractions(H, Names), Weights!Fraction(1, 1))
         /\ R # {} => Weights!Leq(Weights!Fraction(1, 1), Weights!SumOfFractions(H, Names))
<1> DEFINE total == Weights!SumOfFractions(H, Names)
           sum == SumFunctionOnSet(k, Names)
           one == Weights!Fraction(1, 1)
<1>1. IsFraction(total) /\ Is(total, sum, D) /\ sum \in Nat
  BY OutcomeTotal
<1>2. IsFraction(one) /\ Is(one, 1, 1)
  BY Reduced
<1>3. D \in Nat \ {0} /\ sum <= D /\ (R # {} => sum = D)
  BY DEF Outcome
<1> HIDE DEF total, sum, one
<1>4. (Weights!Leq(total, one) <=> sum * 1 <= 1 * D) /\ (Weights!Leq(one, total) <=> 1 * D <= sum * 1)
  BY <1>1, <1>2, <1>3, Compared
<1>5. Weights!Leq(total, one) /\ (R # {} => Weights!Leq(one, total))
  BY <1>1, <1>3, <1>4
<1> QED BY <1>5 DEF total, one

\* The sharers of a key have its cap at most, and at least when settled.
LEMMA OutcomeOfKey ==
  ASSUME NEW key, NEW cap \in Nat, NEW w, NEW R, NEW B, NEW H, NEW D, NEW k,
         Outcome(key, cap, w, R, B, H, D, k), NEW p \in Keys(key, Names)
  PROVE  /\ Weights!Leq(Weights!SumOfFractions(H, Sharers(key, p)), Weights!Fraction(cap, Unit))
         /\ p \in Keys(key, Names \ R) =>
              Weights!Leq(Weights!Fraction(cap, Unit), Weights!SumOfFractions(H, Sharers(key, p)))
<1> DEFINE total == Weights!SumOfFractions(H, Sharers(key, p))
           sum == SumFunctionOnSet(k, Sharers(key, p))
           most == Weights!Fraction(cap, Unit)
<1>1. IsFraction(total) /\ Is(total, sum, D) /\ sum \in Nat
  BY OutcomeTotal DEF Sharers, WithKey
<1>2. Unit \in Nat \ {0} /\ IsFraction(most) /\ Is(most, cap, Unit)
  BY InputAssumption, Reduced
<1>3. /\ D \in Nat \ {0} /\ sum * Unit <= cap * D
      /\ p \in Keys(key, Names \ R) => sum * Unit = cap * D
  BY DEF Outcome
<1> HIDE DEF total, sum, most
<1>4. sum * Unit \in Int
  BY <1>1, <1>2
<1>5. Weights!Leq(total, most) /\ (p \in Keys(key, Names \ R) => Weights!Leq(most, total))
  BY <1>1, <1>2, <1>3, <1>4, Compared
<1> QED BY <1>5 DEF total, most

\* The names themselves as keys.
ByName == [x \in Names |-> x]

LEMMA NamesAsKeys ==
  /\ \A S \in SUBSET Names : Keys(ByName, S) = S /\ Closed(ByName, S)
  /\ \A x \in Names : Sharers(ByName, x) = {x} /\ ByName[x] = x
  /\ \A S \in SUBSET Names : \A x \in S : WithKey(ByName, S, x) = {x}
BY DEF ByName, Keys, Closed, Sharers, WithKey

\* When each name has its own cap.
LEMMA OutcomeOfName ==
  ASSUME NEW cap \in Nat, NEW w, NEW R, NEW B, NEW H, NEW D, NEW k,
         Outcome(ByName, cap, w, R, B, H, D, k), NEW x \in Names
  PROVE  /\ k[x] * Unit <= cap * D
         /\ x \notin R => k[x] * Unit = cap * D
         /\ Weights!Leq(H[x], Weights!Fraction(cap, Unit))
         /\ x \notin R => Weights!Leq(Weights!Fraction(cap, Unit), H[x])
<1> DEFINE v == H[x]
           n == k[x]
           most == Weights!Fraction(cap, Unit)
<1>1. /\ D \in Nat \ {0} /\ IsFraction(v) /\ Is(v, n, D) /\ n \in Nat
      /\ \A p \in Keys(ByName, Names) : SumFunctionOnSet(k, Sharers(ByName, p)) * Unit <= cap * D
      /\ \A p \in Keys(ByName, Names \ R) : SumFunctionOnSet(k, Sharers(ByName, p)) * Unit = cap * D
  BY DEF Outcome
<1>2. Unit \in Nat \ {0} /\ IsFraction(most) /\ Is(most, cap, Unit)
  BY InputAssumption, Reduced
<1>3. SumFunctionOnSet(k, Sharers(ByName, x)) = n
  BY <1>1, NamesAsKeys, SumOne
<1>4. x \in Keys(ByName, Names) /\ (x \notin R => x \in Keys(ByName, Names \ R))
  BY NamesAsKeys
<1>5. n * Unit <= cap * D /\ (x \notin R => n * Unit = cap * D)
  <2> DEFINE sum == SumFunctionOnSet(k, Sharers(ByName, x))
  <2>1. sum * Unit <= cap * D /\ (x \notin R => sum * Unit = cap * D)
    BY <1>1, <1>4, Zenon
  <2>2. sum = n
    BY <1>3, Zenon
  <2> HIDE DEF sum, n
  <2> QED BY <2>1, <2>2, Zenon
<1> HIDE DEF v, n, most
<1>6. n * Unit \in Int
  BY <1>1, <1>2
<1>7. Weights!Leq(v, most) /\ (x \notin R => Weights!Leq(most, v))
  BY <1>1, <1>2, <1>5, <1>6, Compared
<1> QED BY <1>5, <1>7 DEF v, n, most

\* The larger multiple is the larger weight.
LEMMA OutcomeCompares ==
  ASSUME NEW key, NEW cap, NEW w, NEW R, NEW B, NEW H, NEW D, NEW k,
         Outcome(key, cap, w, R, B, H, D, k), NEW x \in Names, NEW y \in Names, k[y] <= k[x]
  PROVE  Weights!Leq(H[y], H[x])
BY Compared, CancelFactor DEF Outcome

\* Proportional multiples compare as the numbers they are proportional to.
LEMMA InProportion ==
  ASSUME NEW m \in Nat, NEW n \in Nat, NEW a \in Nat, NEW b \in Nat, a <= b,
         NEW V \in Nat \ {0}, NEW c \in Nat, NEW D \in Nat,
         m * V = (a * c) * D, n * V = (b * c) * D
  PROVE  m <= n
<1>1. (a * c) * D <= (b * c) * D
  BY ProductType
<1> QED BY <1>1, CancelFactor

\* Names that stayed, and settled names of one key, rank by their weights.
LEMMA OutcomeRanks ==
  ASSUME NEW key, NEW cap \in Nat, NEW w, Weighted(w), NEW R \in SUBSET Names, NEW B \in Nat,
         NEW H, NEW D, NEW k, Outcome(key, cap, w, R, B, H, D, k),
         NEW x \in Names, NEW y \in Names, w[y] <= w[x],
         \/ x \in R /\ y \in R
         \/ x \notin R /\ y \notin R /\ key[x] = key[y]
  PROVE  k[y] <= k[x]
<1>1. Unit \in Nat \ {0} /\ IsFiniteSet(Names) /\ D \in Nat /\ k[x] \in Nat /\ k[y] \in Nat
      /\ w[x] \in Nat /\ w[y] \in Nat
  BY InputAssumption DEF Outcome, Weighted
<1>2. \A S \in SUBSET Names : S # {} => SumFunctionOnSet(w, S) \in Nat \ {0}
  <2> SUFFICES ASSUME NEW S \in SUBSET Names, S # {} PROVE SumFunctionOnSet(w, S) \in Nat \ {0}
    OBVIOUS
  <2>1. IsFiniteSet(S) /\ \A s \in S : w[s] \in Nat \ {0}
    BY <1>1, FS_Subset DEF Weighted
  <2> QED BY <2>1, SumPositive
<1>3. CASE x \in R /\ y \in R
  <2> DEFINE V == SumFunctionOnSet(w, R) * Unit
  <2>1. V \in Nat \ {0}
    BY <1>1, <1>2, <1>3, ProductType
  <2>2. k[x] * V = (w[x] * B) * D /\ k[y] * V = (w[y] * B) * D
    BY <1>3 DEF Outcome
  <2> HIDE DEF V
  <2> DEFINE m == k[y]
             n == k[x]
             a == w[y]
             b == w[x]
  <2>3. m \in Nat /\ n \in Nat /\ a \in Nat /\ b \in Nat /\ a <= b /\ B \in Nat /\ D \in Nat
    BY <1>1
  <2>4. m * V = (a * B) * D /\ n * V = (b * B) * D
    BY <2>2, Zenon
  <2> HIDE DEF m, n, a, b
  <2>5. m <= n
    BY <2>1, <2>3, <2>4, InProportion
  <2> QED BY <2>5 DEF m, n
<1>4. CASE x \notin R /\ y \notin R /\ key[x] = key[y]
  <2> DEFINE V == SumFunctionOnSet(w, Sharers(key, key[x])) * Unit
  <2>1. V \in Nat \ {0}
    <3>1. Sharers(key, key[x]) \in SUBSET Names /\ Sharers(key, key[x]) # {}
      BY DEF Sharers, WithKey
    <3> QED BY <1>1, <1>2, <3>1, ProductType
  <2>2. k[x] * V = (w[x] * cap) * D /\ k[y] * V = (w[y] * cap) * D
    BY <1>4 DEF Outcome
  <2> HIDE DEF V
  <2> DEFINE m == k[y]
             n == k[x]
             a == w[y]
             b == w[x]
  <2>3. m \in Nat /\ n \in Nat /\ a \in Nat /\ b \in Nat /\ a <= b /\ cap \in Nat /\ D \in Nat
    BY <1>1
  <2>4. m * V = (a * cap) * D /\ n * V = (b * cap) * D
    BY <2>2, Zenon
  <2> HIDE DEF m, n, a, b
  <2>5. m <= n
    BY <2>1, <2>3, <2>4, InProportion
  <2> QED BY <2>5 DEF m, n
<1> QED BY <1>3, <1>4

\* A round that caps the keys P leaves a budget and settles their sharers.
LEMMA RoundShares ==
  ASSUME NEW key, NEW cap, NEW w, NEW R, NEW B, NEW F, Shared(key, cap, w, R, B, F),
         NEW P \in SUBSET Keys(key, R), P # {}, \A p \in P : Over(key, cap, w, R, B, p),
         NEW H,
         \A x \in Names \ Keyed(key, R, P) : H[x] = F[x],
         \A x \in Keyed(key, R, P) :
           IsFraction(H[x]) /\ Is(H[x], w[x] * cap, SumFunctionOnSet(w, Sharers(key, key[x])) * Unit)
  PROVE  /\ B - cap * Cardinality(P) > 0
         /\ Shared(key, cap, w, R \ Keyed(key, R, P), B - cap * Cardinality(P), H)
<1> DEFINE T == R \ Keyed(key, R, P)
           left == B - cap * Cardinality(P)
           old == Keys(key, Names \ R)
<1>1. /\ Weighted(w) /\ R \in SUBSET Names /\ Closed(key, R) /\ cap \in Nat /\ B \in Nat \ {0}
      /\ cap * Cardinality(old) + B = Unit
  BY DEF Shared
<1>2. IsFiniteSet(R) /\ IsFiniteSet(Names \ R) /\ IsFiniteSet(Keys(key, R)) /\ IsFiniteSet(old)
  <2>1. IsFiniteSet(R) /\ IsFiniteSet(Names \ R)
    BY <1>1, InputAssumption, FS_Subset
  <2> QED BY <2>1, KeysFinite DEF Keys
<1>3. IsFiniteSet(P) /\ Cardinality(P) \in Nat /\ Cardinality(old) \in Nat
  BY <1>2, FS_Subset, FS_CardinalityType
<1>4. cap * Cardinality(P) < B
  BY <1>1, RoundFits DEF Over
<1>5. left \in Nat \ {0}
  BY <1>1, <1>3, <1>4, ProductType
<1>6. Keys(key, Names \ T) = old \cup P /\ old \cap P = {}
  BY <1>1 DEF Keys, Keyed, Closed
<1>7. Cardinality(Keys(key, Names \ T)) = Cardinality(old) + Cardinality(P)
  <2> HIDE DEF old, T
  <2>1. Cardinality(old \cap P) = 0
    BY <1>6, FS_EmptySet
  <2>2. Cardinality(old \cup P) = Cardinality(old) + Cardinality(P) - Cardinality(old \cap P)
    BY <1>2, <1>3, FS_Union
  <2>3. Cardinality(old \cup P) = Cardinality(old) + Cardinality(P)
    BY <1>3, <2>1, <2>2
  <2>4. Keys(key, Names \ T) = old \cup P
    BY <1>6
  <2> QED BY <2>3, <2>4, Zenon
<1>8. cap * Cardinality(Keys(key, Names \ T)) + left = Unit
  BY <1>1, <1>3, <1>7
<1>9. Closed(key, T) /\ T \in SUBSET Names
  BY <1>1 DEF Closed, Keyed
<1>10. \A x \in T : H[x] = Weights!Zero
  BY <1>1 DEF Shared
<1>11. \A x \in Names \ T :
         Is(H[x], w[x] * cap, SumFunctionOnSet(w, Sharers(key, key[x])) * Unit)
  <2> SUFFICES ASSUME NEW x \in Names \ T
               PROVE  Is(H[x], w[x] * cap, SumFunctionOnSet(w, Sharers(key, key[x])) * Unit)
    OBVIOUS
  <2>1. CASE x \in Keyed(key, R, P)
    BY <2>1
  <2>2. CASE x \notin Keyed(key, R, P)
    BY <2>2 DEF Shared
  <2> QED BY <2>1, <2>2
<1> HIDE DEF T, left
<1>12. Shared(key, cap, w, T, left, H)
  BY <1>1, <1>5, <1>8, <1>9, <1>10, <1>11 DEF Shared
<1>13. left > 0
  BY <1>5
<1> QED BY <1>12, <1>13 DEF T, left

-----------------------------------------------------------------------------
(* The state of the two loops.                                             *)

\* A cap that is absent cuts off nothing.
MaxShare(most) == IF most = None THEN Unit ELSE most

CapInv ==
  /\ weight = raw
  /\ Shared(ByName, MaxShare(maxWeight), raw, remaining, budget, final)
  /\ maxWeight = None => remaining = Names
  /\ \A x \in Names \ remaining, y \in remaining : raw[x] > raw[y]

GroupInv ==
  /\ maxGroup # None
  /\ Shared(group, maxGroup, weight, remaining, budget, final)
  /\ \A x, y \in Names : raw[x] >= raw[y] => weight[x] >= weight[y]

Sound == /\ Weights!WithinBudget /\ Weights!BudgetSpent
         /\ Weights!CapsRespected /\ Weights!RankingKept

WeightsInv ==
  /\ Weighted(raw) /\ group \in [Names -> Groups]
  /\ maxWeight # None => maxWeight \in 1..Unit
  /\ maxGroup # None => maxGroup \in 1..Unit
  /\ phase \in {"cap", "group", "done"}
  /\ phase = "cap" => CapInv
  /\ phase = "group" => GroupInv
  /\ phase = "done" => Sound

\* The operators of the model that sum and count are those of the lemmas.
LEMMA SameOperators ==
  /\ \A w, S : Weights!Sum(w, S) = SumFunctionOnSet(w, S)
  /\ \A S : Weights!Cardinality(S) = Cardinality(S)
BY DEF Weights!Sum, Weights!FoldFunctionOnSet, Weights!MapThenFoldSet,
   SumFunctionOnSet, FoldFunctionOnSet, MapThenFoldSet, Weights!Cardinality,
   Cardinality

\* A loop runs while names remain, and leaves its proposal for them.
LEMMA LoopState ==
  ASSUME NEW key, NEW cap, Shared(key, cap, weight, remaining, budget, final)
  PROVE  /\ Weights!LoopRuns <=> remaining # {}
         /\ \A x \in Names \ remaining : Weights!Settled[x] = final[x]
         /\ \A x \in remaining :
              Weights!Settled[x]
                = Weights!Fraction(weight[x] * budget, SumFunctionOnSet(weight, remaining) * Unit)
<1>1. IsFiniteSet(remaining) /\ remaining \in SUBSET Names /\ \A x \in remaining : weight[x] \in Nat \ {0}
  BY InputAssumption, FS_Subset DEF Shared, Weighted
<1>2. Weights!LoopRuns <=> remaining # {}
  BY <1>1, SumPositive, SameOperators DEF Weights!LoopRuns, Shared
<1>3. ASSUME NEW x \in Names \ remaining PROVE Weights!Settled[x] = final[x]
  BY DEF Weights!Settled
<1>4. ASSUME NEW x \in remaining
      PROVE  Weights!Settled[x]
               = Weights!Fraction(weight[x] * budget, SumFunctionOnSet(weight, remaining) * Unit)
  BY <1>1, <1>2, SameOperators DEF Weights!Settled
<1> QED BY <1>2, <1>3, <1>4

\* The shares of the names that a stock cap is over.
LEMMA NamesOver ==
  ASSUME CapInv, maxWeight # None
  PROVE  /\ Weights!OverNames \in SUBSET remaining
         /\ \A x \in remaining :
              x \in Weights!OverNames <=> Over(ByName, maxWeight, weight, remaining, budget, x)
         /\ \A x \in remaining :
              x \in Weights!OverNames
                <=> weight[x] * budget > maxWeight * SumFunctionOnSet(weight, remaining)
<1>1. ASSUME NEW x \in remaining
      PROVE  /\ x \in Weights!OverNames
                  <=> Over(ByName, maxWeight, weight, remaining, budget, x)
             /\ x \in Weights!OverNames
                  <=> weight[x] * budget > maxWeight * SumFunctionOnSet(weight, remaining)
  <2>1. /\ Weights!Sum(weight, {x}) = SumFunctionOnSet(weight, {x})
        /\ Weights!Sum(weight, remaining) = SumFunctionOnSet(weight, remaining)
    BY SameOperators
  <2>2. remaining \in SUBSET Names /\ weight[x] \in Int
    BY DEF CapInv, Shared, Weighted
  <2>3. Over(ByName, maxWeight, weight, remaining, budget, x)
          <=> SumFunctionOnSet(weight, {x}) * budget > maxWeight * SumFunctionOnSet(weight, remaining)
    BY <2>2, NamesAsKeys DEF Over
  <2>4. x \in Weights!OverNames
          <=> SumFunctionOnSet(weight, {x}) * budget > maxWeight * SumFunctionOnSet(weight, remaining)
    BY <2>1 DEF Weights!OverNames, Weights!ShareExceeds
  <2>5. x \in Weights!OverNames
          <=> weight[x] * budget > maxWeight * SumFunctionOnSet(weight, remaining)
    BY <2>2, <2>4, SumOne
  <2> QED BY <2>3, <2>4, <2>5, Zenon
<1> QED BY <1>1 DEF Weights!OverNames

\* A round of cap_weights settles the largest of the weights.
LEMMA CapRoundKeeps ==
  WeightsInv /\ Weights!CapRound => WeightsInv'
<1> SUFFICES ASSUME WeightsInv, Weights!CapRound PROVE WeightsInv'
  OBVIOUS
<1> DEFINE over == Weights!OverNames
           W == SumFunctionOnSet(weight, remaining)
           cap == maxWeight
<1>1. /\ phase = "cap" /\ CapInv /\ over # {}
      /\ raw' = raw /\ group' = group /\ maxWeight' = maxWeight /\ maxGroup' = maxGroup
      /\ phase' = phase /\ weight' = weight
      /\ remaining' = remaining \ over
      /\ budget' = Weights!BudgetLeft(cap, over)
  BY DEF WeightsInv, Weights!CapRound, Weights!inputs
<1>2. cap # None /\ cap \in 1..Unit /\ MaxShare(maxWeight) = cap
  BY <1>1 DEF Weights!OverNames, Weights!ShareExceeds, WeightsInv, MaxShare
<1>3. /\ over \in SUBSET remaining
      /\ \A x \in remaining :
           x \in over <=> Over(ByName, cap, weight, remaining, budget, x)
      /\ \A x \in remaining : x \in over <=> weight[x] * budget > cap * W
  BY <1>1, <1>2, NamesOver
<1>4. Shared(ByName, cap, weight, remaining, budget, final) /\ remaining \in SUBSET Names
  BY <1>1, <1>2 DEF CapInv, Shared
<1>5. /\ \A x \in Names \ over : final'[x] = final[x]
      /\ \A x \in over : final'[x] = Weights!Fraction(cap, Unit)
  BY <1>3, <1>4 DEF Weights!CapRound
<1>6. Unit \in Nat \ {0} /\ cap \in Nat \ {0} /\ Weighted(weight)
  BY <1>2, <1>4, InputAssumption DEF Shared
<1>7. over \in SUBSET Keys(ByName, remaining) /\ Keyed(ByName, remaining, over) = over
  BY <1>3, <1>4 DEF Keys, Keyed, ByName
<1> HIDE DEF over
<1>8. ASSUME NEW x \in over
      PROVE  /\ IsFraction(final'[x])
             /\ Is(final'[x], weight[x] * cap,
                   SumFunctionOnSet(weight, Sharers(ByName, ByName[x])) * Unit)
  <2>1. x \in Names /\ final'[x] = Weights!Fraction(cap, Unit) /\ weight[x] \in Nat \ {0}
    BY <1>3, <1>4, <1>5, <1>6 DEF Weighted
  <2>2. IsFraction(final'[x]) /\ Is(final'[x], cap, Unit)
    BY <1>6, <2>1, Reduced
  <2>3. SumFunctionOnSet(weight, Sharers(ByName, ByName[x])) = weight[x]
    BY <2>1, NamesAsKeys, SumOne
  <2> DEFINE a == weight[x]
  <2>4. a \in Nat \ {0} /\ a * cap \in Nat /\ a * Unit \in Nat \ {0}
    BY <1>6, <2>1, ProductType
  <2> HIDE DEF a, cap
  <2>5. Is(final'[x], a * cap, a * Unit)
    BY <1>6, <2>2, <2>4, OverAnother
  <2> QED BY <2>2, <2>3, <2>5, Zenon DEF a
<1>9. /\ budget - cap * Cardinality(over) > 0
      /\ Shared(ByName, cap, weight, remaining \ over, budget - cap * Cardinality(over), final')
  BY <1>1, <1>3, <1>4, <1>5, <1>7, <1>8, RoundShares
<1>10. budget' = budget - cap * Cardinality(over)
  BY <1>1, <1>9, SameOperators DEF Weights!BudgetLeft
<1>11. ASSUME NEW x \in Names \ remaining', NEW y \in remaining' PROVE raw[x] > raw[y]
  <2>1. y \in remaining /\ y \notin over /\ weight = raw
    BY <1>1 DEF CapInv
  <2>2. CASE x \notin remaining
    BY <1>1, <2>1, <2>2 DEF CapInv
  <2>3. CASE x \in remaining
    <3>1. weight[x] * budget > cap * W /\ ~(weight[y] * budget > cap * W)
      BY <1>1, <1>3, <2>1, <2>3
    <3>2. weight[x] \in Nat /\ weight[y] \in Nat /\ budget \in Nat \ {0} /\ W \in Nat
      <4>1. IsFiniteSet(remaining) /\ \A z \in remaining : weight[z] \in Nat
        BY <1>4, <1>6, InputAssumption, FS_Subset DEF Weighted
      <4> QED BY <1>4, <2>1, <2>3, <4>1, SumNat DEF Shared
    <3> DEFINE a == weight[x]
               b == weight[y]
               c == cap * W
    <3>3. c \in Nat
      BY <1>6, <3>2
    <3> HIDE DEF a, b, c
    <3>4. ~(a <= b)
      BY <3>1, <3>2, <3>3, CancelFactor DEF a, b, c
    <3> QED BY <2>1, <3>2, <3>4 DEF a, b
  <2> QED BY <2>2, <2>3
<1>12. CapInv'
  <2>1. Shared(ByName, MaxShare(maxWeight), raw, remaining, budget, final)'
    BY <1>1, <1>2, <1>9, <1>10 DEF CapInv
  <2> QED BY <1>1, <1>2, <1>11, <2>1 DEF CapInv
<1> QED BY <1>1, <1>12 DEF WeightsInv, Weighted

\* The groups whose shares are over the group cap.
LEMMA GroupsOver ==
  ASSUME maxGroup # None
  PROVE  /\ \A g : Weights!Members(g) = WithKey(group, remaining, g)
         /\ Weights!OverGroups \in SUBSET Keys(group, remaining)
         /\ \A g \in Keys(group, remaining) :
              g \in Weights!OverGroups <=> Over(group, maxGroup, weight, remaining, budget, g)
<1>1. \A g : Weights!Members(g) = WithKey(group, remaining, g)
  BY DEF Weights!Members, WithKey
<1>2. ASSUME NEW g \in Keys(group, remaining)
      PROVE  g \in Weights!OverGroups <=> Over(group, maxGroup, weight, remaining, budget, g)
  BY <1>1, SameOperators DEF Weights!OverGroups, Weights!ShareExceeds, Keys,
     Over
<1> QED BY <1>1, <1>2 DEF Weights!OverGroups, Keys

\* A round of cap_group_weights settles whole groups.
LEMMA GroupRoundKeeps ==
  WeightsInv /\ Weights!GroupRound => WeightsInv'
<1> SUFFICES ASSUME WeightsInv, Weights!GroupRound PROVE WeightsInv'
  OBVIOUS
<1> DEFINE groups == Weights!OverGroups
           over == Keyed(group, remaining, groups)
           cap == maxGroup
<1>1. /\ phase = "group" /\ GroupInv /\ groups # {}
      /\ raw' = raw /\ group' = group /\ maxWeight' = maxWeight /\ maxGroup' = maxGroup
      /\ phase' = phase /\ weight' = weight
      /\ remaining' = remaining \ over
      /\ budget' = Weights!BudgetLeft(cap, groups)
  BY DEF WeightsInv, Weights!GroupRound, Weights!inputs, Keyed
<1>2. cap # None /\ cap \in 1..Unit
  BY <1>1 DEF GroupInv, WeightsInv
<1>3. /\ \A g : Weights!Members(g) = WithKey(group, remaining, g)
      /\ groups \in SUBSET Keys(group, remaining)
      /\ \A g \in groups : Over(group, cap, weight, remaining, budget, g)
  BY <1>2, GroupsOver
<1>4. Shared(group, cap, weight, remaining, budget, final) /\ remaining \in SUBSET Names
  BY <1>1 DEF GroupInv, Shared
<1>5. /\ \A x \in Names \ over : final'[x] = final[x]
      /\ \A x \in over :
           final'[x] = Weights!Fraction(weight[x] * cap,
                                        Weights!Sum(weight, Weights!Members(group[x])) * Unit)
  BY <1>4 DEF Weights!GroupRound, Keyed
<1>6. /\ Unit \in Nat \ {0} /\ cap \in Nat \ {0} /\ Weighted(weight) /\ Closed(group, remaining)
      /\ IsFiniteSet(Names)
  BY <1>2, <1>4, InputAssumption DEF Shared
<1>7. over \subseteq remaining
  BY DEF Keyed
<1> HIDE DEF over, groups
<1>8. ASSUME NEW x \in over
      PROVE  /\ IsFraction(final'[x])
             /\ Is(final'[x], weight[x] * cap,
                   SumFunctionOnSet(weight, Sharers(group, group[x])) * Unit)
  <2> DEFINE S == Sharers(group, group[x])
             W == SumFunctionOnSet(weight, S)
  <2>1. x \in remaining /\ x \in Names /\ weight[x] \in Nat \ {0}
    BY <1>4, <1>6, <1>7 DEF Weighted
  <2>2. Weights!Members(group[x]) = S
    BY <1>3, <1>4, <1>6, <2>1 DEF WithKey, Sharers, Closed
  <2>3. IsFiniteSet(S) /\ S # {} /\ \A y \in S : weight[y] \in Nat \ {0}
    BY <1>6, <2>1, FS_Subset DEF Sharers, WithKey, Weighted
  <2> HIDE DEF S
  <2>4. W \in Nat \ {0}
    BY <2>3, SumPositive
  <2>5. Weights!Sum(weight, S) = W
    BY SameOperators
  <2> HIDE DEF W
  <2>6. final'[x] = Weights!Fraction(weight[x] * cap, W * Unit)
    BY <1>5, <2>2, <2>5
  <2>7. IsFraction(final'[x]) /\ Is(final'[x], weight[x] * cap, W * Unit)
    BY <1>6, <2>1, <2>4, <2>6, ProductType, Reduced
  <2> QED BY <2>7 DEF W, S
<1>9. /\ budget - cap * Cardinality(groups) > 0
      /\ Shared(group, cap, weight, remaining \ over, budget - cap * Cardinality(groups), final')
  BY <1>1, <1>3, <1>4, <1>5, <1>8, RoundShares DEF over
<1>10. budget' = budget - cap * Cardinality(groups)
  BY <1>1, <1>9, SameOperators DEF Weights!BudgetLeft
<1>11. GroupInv'
  BY <1>1, <1>2, <1>9, <1>10 DEF GroupInv
<1> QED BY <1>1, <1>11 DEF WeightsInv, Weighted

\* What cap_weights leaves when it ends, in multiples of a common fraction.
LEMMA CapsEnd ==
  ASSUME WeightsInv, phase = "cap", Weights!LoopRuns => Weights!OverNames = {}
  PROVE  \E D, k : Outcome(ByName, MaxShare(maxWeight), raw, remaining, budget, Weights!Settled, D, k)
<1> DEFINE cap == MaxShare(maxWeight)
           W == SumFunctionOnSet(raw, remaining)
<1>1. CapInv /\ weight = raw /\ Shared(ByName, cap, raw, remaining, budget, final)
      /\ remaining \in SUBSET Names
  BY DEF WeightsInv, CapInv, Shared
<1>2. /\ \A x \in Names \ remaining : Weights!Settled[x] = final[x]
      /\ \A x \in remaining : Weights!Settled[x] = Weights!Fraction(raw[x] * budget, W * Unit)
      /\ Weights!LoopRuns <=> remaining # {}
  <2> HIDE DEF cap
  <2> QED BY <1>1, LoopState
<1>3. ASSUME NEW p \in Keys(ByName, remaining)
      PROVE  ~Over(ByName, cap, raw, remaining, budget, p)
  <2>1. p \in remaining
    BY <1>1, <1>3, NamesAsKeys
  <2>2. CASE maxWeight # None
    BY <1>1, <1>2, <2>1, <2>2, NamesOver DEF MaxShare
  <2>3. CASE maxWeight = None
    <3>1. cap = Unit /\ remaining = Names
      BY <1>1, <2>3 DEF CapInv, MaxShare
    <3>2. budget = Unit /\ Unit \in Nat
      <4>1. Keys(ByName, Names \ remaining) = {}
        BY <3>1 DEF Keys
      <4>2. Cardinality(Keys(ByName, Names \ remaining)) = 0
        BY <4>1, FS_EmptySet
      <4>3. cap * Cardinality(Keys(ByName, Names \ remaining)) + budget = Unit /\ budget \in Nat
        BY <1>1 DEF Shared
      <4>4. cap \in Nat /\ cap * 0 = 0
        BY <1>1 DEF Shared
      <4> QED BY <3>1, <4>2, <4>3, <4>4
    <3>3. SumFunctionOnSet(raw, {p}) <= W /\ W \in Nat /\ SumFunctionOnSet(raw, {p}) \in Nat
      <4>1. IsFiniteSet(remaining) /\ (\A x \in remaining : raw[x] \in Nat \ {0})
            /\ {p} \in SUBSET remaining
        BY <1>1, <2>1, InputAssumption, FS_Subset DEF Shared, Weighted
      <4> QED BY <4>1, SumPositive
    <3> DEFINE v == SumFunctionOnSet(raw, {p})
    <3>4. Over(ByName, cap, raw, remaining, budget, p) <=> v * Unit > Unit * W
      BY <1>1, <2>1, <3>1, <3>2, NamesAsKeys DEF Over
    <3> HIDE DEF v, W
    <3>5. ~(v * Unit > Unit * W)
      <4>1. v * Unit <= W * Unit
        BY <3>3, InputAssumption, CancelFactor DEF v
      <4> QED BY <3>2, <3>3, <4>1 DEF v
    <3> QED BY <3>4, <3>5
  <2> QED BY <2>2, <2>3
<1> DEFINE H == Weights!Settled
<1> HIDE DEF cap, H
<1>4. \E D, k : Outcome(ByName, cap, raw, remaining, budget, H, D, k)
  BY <1>1, <1>2, <1>3, LoopEnds DEF H
<1> QED BY <1>4 DEF cap, H

\* Capping keeps the ranking of the stocks.
LEMMA CapRanks ==
  ASSUME CapInv, NEW D, NEW k,
         Outcome(ByName, MaxShare(maxWeight), raw, remaining, budget, Weights!Settled, D, k),
         NEW x \in Names, NEW y \in Names, raw[x] >= raw[y]
  PROVE  k[y] <= k[x]
<1> DEFINE cap == MaxShare(maxWeight)
           H == Weights!Settled
           m == k[y]
           n == k[x]
<1>1. /\ Weighted(raw) /\ remaining \in SUBSET Names /\ cap \in Nat /\ budget \in Nat
      /\ \A u \in Names \ remaining, v \in remaining : raw[u] > raw[v]
  BY DEF CapInv, Shared
<1>2. raw[x] \in Nat /\ raw[y] \in Nat /\ raw[y] <= raw[x]
  BY <1>1 DEF Weighted
<1>3. Unit \in Nat \ {0} /\ m \in Nat /\ n \in Nat /\ D \in Nat
  BY InputAssumption DEF Outcome
<1> HIDE DEF cap, H
<1>4. Outcome(ByName, cap, raw, remaining, budget, H, D, k)
  BY DEF cap, H
<1>5. CASE x \in remaining /\ y \in remaining
  BY <1>1, <1>2, <1>4, <1>5, OutcomeRanks DEF m, n
<1>6. CASE x \in remaining /\ y \notin remaining
  BY <1>1, <1>2, <1>6
<1>7. CASE x \notin remaining
  BY <1>1, <1>3, <1>4, <1>7, OutcomeOfName, CancelFactor DEF m, n
<1> QED BY <1>5, <1>6, <1>7

\* Without a group cap the capped weights are the result.
LEMMA BeginWithoutGroups ==
  ASSUME WeightsInv, Weights!BeginGroups, maxGroup = None
  PROVE  WeightsInv'
<1> DEFINE cap == MaxShare(maxWeight)
           H == final'
           one == Weights!Fraction(1, 1)
<1>1. /\ phase = "cap" /\ CapInv /\ phase' = "done" /\ H = Weights!Settled
      /\ raw' = raw /\ group' = group /\ maxWeight' = maxWeight /\ maxGroup' = maxGroup
      /\ Weights!LoopRuns => Weights!OverNames = {}
  BY DEF WeightsInv, Weights!BeginGroups, Weights!inputs
<1>2. PICK D, k : Outcome(ByName, cap, raw, remaining, budget, Weights!Settled, D, k)
  BY <1>1, CapsEnd
<1>3. \A x, y \in Names : raw[x] >= raw[y] => k[y] <= k[x]
  BY <1>1, <1>2, CapRanks
<1> HIDE DEF H
<1>4. Outcome(ByName, cap, raw, remaining, budget, H, D, k)
  BY <1>1, <1>2
<1>5. cap \in Nat /\ remaining \in SUBSET Names /\ (maxWeight = None => remaining = Names)
  BY <1>1 DEF CapInv, Shared
<1> HIDE DEF cap
<1>6. /\ Weights!Leq(Weights!SumOfFractions(H, Names), one)
      /\ remaining # {} => Weights!Leq(one, Weights!SumOfFractions(H, Names))
  BY <1>4, OutcomeWithin
<1>7. ASSUME NEW x \in Names
      PROVE  /\ Weights!Leq(H[x], Weights!Fraction(cap, Unit))
             /\ x \notin remaining => Weights!Leq(Weights!Fraction(cap, Unit), H[x])
  BY <1>4, <1>5, OutcomeOfName
<1>8. ASSUME NEW x \in Names, NEW y \in Names, raw[x] >= raw[y] PROVE Weights!Leq(H[y], H[x])
  BY <1>3, <1>4, <1>8, OutcomeCompares
<1>9. maxWeight # None => cap = maxWeight
  BY DEF cap, MaxShare
<1>10. Weights!BudgetSpent'
  <2>1. CASE remaining # {}
    BY <1>6, <2>1 DEF Weights!BudgetSpent, Weights!Allocated, H
  <2>2. CASE remaining = {}
    BY <1>1, <1>5, <1>7, <1>9, <2>2 DEF Weights!BudgetSpent, H
  <2> QED BY <2>1, <2>2
<1>11. Weights!CapsRespected'
  BY <1>1, <1>7, <1>9 DEF Weights!CapsRespected, H
<1>12. Weights!RankingKept'
  BY <1>1, <1>8 DEF Weights!RankingKept, H
<1>13. Sound'
  BY <1>6, <1>10, <1>11, <1>12 DEF Sound, Weights!WithinBudget,
     Weights!Allocated, H
<1> QED BY <1>1, <1>13 DEF WeightsInv, Weighted

\* With one, cap_group_weights starts from weights in the same order.
LEMMA BeginWithGroups ==
  ASSUME WeightsInv, Weights!BeginGroups, maxGroup # None
  PROVE  WeightsInv'
<1> DEFINE W == SumFunctionOnSet(raw, remaining)
<1>1. /\ phase = "cap" /\ CapInv /\ phase' = "group"
      /\ raw' = raw /\ group' = group /\ maxWeight' = maxWeight /\ maxGroup' = maxGroup
      /\ remaining' = Names /\ budget' = Unit /\ maxGroup \in 1..Unit
      /\ Weights!LoopRuns => Weights!OverNames = {}
      /\ \A x \in Names : final'[x] = Weights!Zero
  BY DEF WeightsInv, Weights!BeginGroups, Weights!inputs
<1>2. /\ Weighted(raw) /\ remaining \in SUBSET Names /\ budget \in Nat \ {0} /\ weight = raw
      /\ Shared(ByName, MaxShare(maxWeight), weight, remaining, budget, final)
      /\ maxWeight = None => remaining = Names
      /\ maxWeight # None => maxWeight \in Nat \ {0}
      /\ \A u \in Names \ remaining, v \in remaining : raw[u] > raw[v]
      /\ Unit \in Nat \ {0} /\ IsFiniteSet(remaining)
  BY <1>1, InputAssumption, FS_Subset DEF CapInv, Shared, WeightsInv
<1>3. Weights!LoopRuns <=> remaining # {}
  BY <1>2, LoopState
<1>4. Weights!Sum(weight, remaining) = W
  BY <1>2, SameOperators
<1>5. W \in Nat /\ (remaining # {} => W \in Nat \ {0})
  BY <1>2, SumPositive DEF Weighted
<1> HIDE DEF W
<1>6. /\ \A x \in remaining : weight'[x] = raw[x] * budget
      /\ \A x \in Names \ remaining : remaining # {} => weight'[x] = maxWeight * W
      /\ \A x \in Names \ remaining : remaining = {} => weight'[x] = maxWeight
  BY <1>1, <1>2, <1>3, <1>4 DEF Weights!BeginGroups
<1>7. \A x \in Names : weight'[x] \in Nat \ {0}
  <2>1. ASSUME NEW x \in remaining PROVE weight'[x] \in Nat \ {0}
    BY <1>2, <1>6, ProductType DEF Weighted
  <2>2. ASSUME NEW x \in Names \ remaining PROVE weight'[x] \in Nat \ {0}
    BY <1>2, <1>5, <1>6, ProductType
  <2> QED BY <2>1, <2>2
<1>8. ASSUME NEW x \in Names, NEW y \in Names, raw[x] >= raw[y] PROVE weight'[x] >= weight'[y]
  <2>1. CASE x \in remaining /\ y \in remaining
    BY <1>2, <1>6, <1>8, <2>1, CancelFactor DEF Weighted
  <2>2. CASE x \in remaining /\ y \notin remaining
    BY <1>2, <1>8, <2>2 DEF Weighted
  <2>3. CASE x \notin remaining /\ y \notin remaining
    BY <1>6, <1>7, <2>3
  <2>4. CASE x \notin remaining /\ y \in remaining
    BY <1>1, <1>2, <1>3, <1>6, <1>7, <2>4, NamesOver DEF W
  <2> QED BY <2>1, <2>2, <2>3, <2>4
<1>9. Shared(group, maxGroup, weight', Names, Unit, final')
  <2>1. Closed(group, Names) /\ Weighted(weight')
    BY <1>7 DEF Closed, Weighted
  <2>2. Cardinality(Keys(group, Names \ Names)) = 0
    BY FS_EmptySet DEF Keys
  <2>3. maxGroup \in Nat /\ maxGroup * 0 + Unit = Unit
    BY <1>1, <1>2
  <2>4. \A x \in Names : IsFraction(final'[x])
    BY <1>1, ZeroIs
  <2> QED BY <1>1, <1>2, <2>1, <2>2, <2>3, <2>4 DEF Shared
<1> QED BY <1>1, <1>2, <1>8, <1>9 DEF WeightsInv, Weighted, GroupInv

\* What cap_group_weights leaves when it ends.
LEMMA EndKeeps ==
  WeightsInv /\ Weights!EndGroups => WeightsInv'
<1> SUFFICES ASSUME WeightsInv, Weights!EndGroups PROVE WeightsInv'
  OBVIOUS
<1> DEFINE cap == maxGroup
           H == Weights!Settled
           one == Weights!Fraction(1, 1)
           most == Weights!Fraction(cap, Unit)
           TotalOf(g) == Weights!SumOfFractions(H, Sharers(group, g))
<1>1. /\ phase = "group" /\ GroupInv /\ phase' = "done" /\ final' = H
      /\ raw' = raw /\ group' = group /\ maxWeight' = maxWeight /\ maxGroup' = maxGroup
      /\ weight' = weight /\ remaining' = remaining /\ budget' = budget
      /\ Weights!LoopRuns => Weights!OverGroups = {}
  BY DEF WeightsInv, Weights!EndGroups, Weights!inputs
<1>2. /\ maxGroup # None /\ cap \in Nat /\ Unit \in Nat \ {0} /\ budget \in Nat
      /\ Shared(group, cap, weight, remaining, budget, final)
      /\ Weighted(weight) /\ Closed(group, remaining) /\ remaining \in SUBSET Names
      /\ \A x, y \in Names : raw[x] >= raw[y] => weight[x] >= weight[y]
  BY <1>1, InputAssumption DEF GroupInv, Shared
<1>3. /\ \A x \in Names \ remaining : H[x] = final[x]
      /\ \A x \in remaining :
           H[x] = Weights!Fraction(weight[x] * budget, SumFunctionOnSet(weight, remaining) * Unit)
      /\ Weights!LoopRuns <=> remaining # {}
  BY <1>2, LoopState
<1>4. \A g \in Keys(group, remaining) : ~Over(group, cap, weight, remaining, budget, g)
  BY <1>1, <1>2, <1>3, GroupsOver DEF Keys
<1> HIDE DEF H
<1>5. PICK D, k : Outcome(group, cap, weight, remaining, budget, H, D, k)
  BY <1>2, <1>3, <1>4, LoopEnds
<1> HIDE DEF cap
<1>6. /\ Weights!Leq(Weights!SumOfFractions(H, Names), one)
      /\ remaining # {} => Weights!Leq(one, Weights!SumOfFractions(H, Names))
  BY <1>5, OutcomeWithin
<1>7. ASSUME NEW g
      PROVE  /\ Weights!Leq(TotalOf(g), most)
             /\ g \in Keys(group, Names \ remaining) => Weights!Leq(most, TotalOf(g))
  <2>1. CASE g \in Keys(group, Names)
    BY <1>2, <1>5, <2>1, OutcomeOfKey
  <2>2. CASE g \notin Keys(group, Names)
    <3>1. Sharers(group, g) = {} /\ g \notin Keys(group, Names \ remaining)
      BY <2>2 DEF Keys, Sharers, WithKey
    <3>2. /\ IsFraction(TotalOf(g)) /\ Is(TotalOf(g), SumFunctionOnSet(weight, {}), 1)
          /\ IsFraction(most) /\ Is(most, cap, Unit)
      BY <1>2, <3>1, Reduced, FS_EmptySet, TotalValue, SumEmpty, ZeroIs
    <3> HIDE DEF TotalOf, most
    <3>3. Is(TotalOf(g), 0, 1)
      BY <3>2, SumEmpty
    <3>4. 0 * Unit <= cap * 1
      BY <1>2
    <3> QED BY <1>2, <3>1, <3>2, <3>3, <3>4, Compared
  <2> QED BY <2>1, <2>2
<1>8. ASSUME NEW x \in Names, NEW y \in Names, raw[x] >= raw[y], group[x] = group[y]
      PROVE  Weights!Leq(H[y], H[x])
  <2>1. (x \in remaining /\ y \in remaining) \/ (x \notin remaining /\ y \notin remaining)
    BY <1>2, <1>8 DEF Closed
  <2>2. weight[y] <= weight[x]
    BY <1>2, <1>8 DEF Weighted
  <2>3. k[y] <= k[x]
    BY <1>2, <1>5, <1>8, <2>1, <2>2, OutcomeRanks
  <2> QED BY <1>5, <2>3, OutcomeCompares
<1>9. \A g : {x \in Names : group[x] = g} = Sharers(group, g)
  BY DEF Sharers, WithKey
<1>10. Weights!BudgetSpent'
  <2>1. CASE remaining # {}
    BY <1>1, <1>6, <2>1 DEF Weights!BudgetSpent, Weights!Allocated
  <2>2. CASE remaining = {}
    <3>1. \A g \in {group[x] : x \in Names} :
            Weights!Leq(Weights!Fraction(maxGroup, Unit),
                        Weights!SumOfFractions(H, {x \in Names : group[x] = g}))
      BY <1>7, <1>9, <2>2 DEF Keys, cap
    <3> QED BY <1>1, <1>2, <3>1 DEF Weights!BudgetSpent
  <2> QED BY <2>1, <2>2
<1>11. Weights!CapsRespected'
  <2>1. \A g \in Groups :
          Weights!Leq(Weights!SumOfFractions(H, {x \in Names : group[x] = g}),
                      Weights!Fraction(maxGroup, Unit))
    BY <1>7, <1>9 DEF cap
  <2> QED BY <1>1, <1>2, <2>1 DEF Weights!CapsRespected
<1>12. Weights!RankingKept'
  BY <1>1, <1>8 DEF Weights!RankingKept
<1>13. Sound'
  BY <1>1, <1>6, <1>10, <1>11, <1>12 DEF Sound, Weights!WithinBudget,
     Weights!Allocated
<1> QED BY <1>1, <1>13 DEF WeightsInv, Weighted

\* The loops start with everything to share.
LEMMA WeightsInit == Weights!Init => WeightsInv
<1> SUFFICES ASSUME Weights!Init PROVE WeightsInv
  OBVIOUS
<1>1. /\ raw \in [Names -> 1..MaxRaw] /\ group \in [Names -> Groups]
      /\ maxWeight \in (1..Unit) \cup {None} /\ maxGroup \in (1..Unit) \cup {None}
      /\ phase = "cap" /\ weight = raw /\ final = [x \in Names |-> Weights!Zero]
      /\ remaining = Names /\ budget = Unit
  BY DEF Weights!Init
<1>2. Unit \in Nat \ {0} /\ MaxRaw \in Nat /\ Weighted(raw)
  BY <1>1, InputAssumption DEF Weighted
<1> DEFINE cap == MaxShare(maxWeight)
<1>3. cap \in Nat
  BY <1>1, <1>2 DEF MaxShare
<1> HIDE DEF cap
<1>4. Shared(ByName, cap, raw, Names, Unit, final)
  <2>1. Closed(ByName, Names)
    BY NamesAsKeys
  <2>2. Keys(ByName, Names \ Names) = {}
    BY DEF Keys
  <2>3. Cardinality(Keys(ByName, Names \ Names)) = 0
    BY <2>2, FS_EmptySet
  <2>4. cap * 0 + Unit = Unit
    BY <1>2, <1>3
  <2>5. cap * Cardinality(Keys(ByName, Names \ Names)) + Unit = Unit
    BY <2>3, <2>4
  <2>6. \A x \in Names : IsFraction(final[x])
    BY <1>1, ZeroIs
  <2> QED BY <1>1, <1>2, <1>3, <2>1, <2>5, <2>6 DEF Shared
<1> QED BY <1>1, <1>2, <1>4 DEF WeightsInv, CapInv, cap

\* It says nothing of anything but the loops.
LEMMA WeightsUnchanged == WeightsInv /\ UNCHANGED weightVars => WeightsInv'
<1> SUFFICES ASSUME WeightsInv, UNCHANGED weightVars PROVE WeightsInv'
  OBVIOUS
<1>1. /\ raw' = raw /\ group' = group /\ maxWeight' = maxWeight /\ maxGroup' = maxGroup
      /\ phase' = phase /\ weight' = weight /\ final' = final
      /\ remaining' = remaining /\ budget' = budget
  BY DEF weightVars
<1>2. Sound' = Sound
  BY <1>1 DEF Sound, Weights!WithinBudget, Weights!BudgetSpent, Weights!CapsRespected,
     Weights!RankingKept, Weights!Allocated
<1> QED BY <1>1, <1>2 DEF WeightsInv, Weighted, CapInv, GroupInv

\* Every step of the loops keeps it.
LEMMA WeightsStep == WeightsInv /\ Weights!Next => WeightsInv'
<1> SUFFICES ASSUME WeightsInv, Weights!Next PROVE WeightsInv'
  OBVIOUS
<1>1. CASE Weights!CapRound
  BY <1>1, CapRoundKeeps
<1>2. CASE Weights!BeginGroups
  BY <1>2, BeginWithoutGroups, BeginWithGroups
<1>3. CASE Weights!GroupRound
  BY <1>3, GroupRoundKeeps
<1>4. CASE Weights!EndGroups
  BY <1>4, EndKeeps
<1>5. CASE Weights!Done
  BY <1>5, WeightsUnchanged DEF Weights!Done, Weights!vars, Weights!inputs,
     weightVars
<1> QED BY <1>1, <1>2, <1>3, <1>4, <1>5 DEF Weights!Next

\* Within the loops the budget is kept as well.
LEMMA InvIsSound == WeightsInv => Sound
<1> SUFFICES ASSUME WeightsInv PROVE Sound
  OBVIOUS
<1>1. CASE phase = "done"
  BY <1>1 DEF WeightsInv
<1>2. CASE phase # "done"
  <2>1. Weights!WithinBudget
    BY <1>2, SharedWithin DEF Weights!WithinBudget, Weights!Allocated,
       WeightsInv, CapInv, GroupInv
  <2> QED BY <1>2, <2>1 DEF Sound, Weights!BudgetSpent, Weights!CapsRespected, Weights!RankingKept
<1> QED BY <1>1, <1>2

-----------------------------------------------------------------------------
(* The properties of the runs.                                             *)

(***************************************************************************)
(* What a run knows of its histories: an entry is of a day gone by, in the *)
(* history of its own number of steps, and read the labels of the days     *)
(* from its own to its rebalance; an estimate used the history of the day. *)
(***************************************************************************)
EntriesTrue ==
  \A r \in 0..freq : \A e \in histories[r] :
    /\ e.day \in Nat /\ e.day < pos
    /\ r > 0 /\ History!RemainingSteps(e.day) = r
    /\ e.reads = e.day..(e.day + r - 1)

HistoryInv ==
  /\ freq \in Nat \ {0} /\ nDates \in Nat /\ pos \in Nat /\ pos <= nDates
  /\ pc \in {"signal", "append"} /\ (pc = "append" => pos < nDates)
  /\ histories = [r \in 0..freq |-> histories[r]]
  /\ EntriesTrue
  /\ used # {} => /\ pc = "append" /\ History!RemainingSteps(pos) > 0
                  /\ used = histories[History!RemainingSteps(pos)]

Inv == /\ part = "history" => HistoryInv
       /\ part = "weights" => WeightsInv
       /\ part = "topk" => TopkCase
       /\ part = "metadata" => MetadataCase
       /\ part = "source" => SourceCase
       /\ part = "risk" => RiskCase
       /\ part = "factors" => FactorCase
       /\ part = "evidence" => EvidenceCase
       /\ part = "selection" => SelectionCase
       /\ part = "provenance" => ProvenanceCase

\* It holds of every input that is drawn.
LEMMA InitInv == Init => Inv
<1>1. ASSUME Init, part = "history" PROVE HistoryInv
  BY <1>1, InputAssumption DEF Init, History!Init, HistoryInv, EntriesTrue
<1>2. ASSUME Init
      PROVE  /\ part = "topk" => TopkCase
             /\ part = "metadata" => MetadataCase
             /\ part = "source" => SourceCase
             /\ part = "risk" => RiskCase
             /\ part = "factors" => FactorCase
             /\ part = "evidence" => EvidenceCase
             /\ part = "selection" => SelectionCase
             /\ part = "provenance" => ProvenanceCase
  BY <1>2 DEF Init
<1>3. ASSUME Init, part = "weights" PROVE WeightsInv
  BY <1>3, WeightsInit DEF Init
<1> QED BY <1>1, <1>2, <1>3 DEF Inv

\* A day reads the history of its own number of steps.
LEMMA EstimateKeeps ==
  HistoryInv /\ History!Estimate => HistoryInv'
BY StepsInPeriod DEF History!Estimate, History!params, History!RemainingSteps,
   HistoryInv, EntriesTrue

\* The entries of a day are of that day.
LEMMA AppendKeeps ==
  HistoryInv /\ History!AppendFromRow => HistoryInv'
<1> SUFFICES ASSUME HistoryInv, History!AppendFromRow PROVE HistoryInv'
  OBVIOUS
<1> DEFINE steps == History!RemainingSteps(pos)
           Entry(s) == [day |-> pos, stock |-> s, reads |-> pos..(pos + steps - 1)]
<1>1. /\ freq' = freq /\ nDates' = nDates /\ pos' = pos + 1 /\ pc' = "signal" /\ used' = {}
      /\ pos < nDates
  BY DEF History!AppendFromRow, History!params, HistoryInv
<1>2. PICK S : /\ S = {} \/ steps > 0
               /\ histories' = [histories EXCEPT ![steps] = @ \cup {Entry(s) : s \in S}]
  BY DEF History!AppendFromRow, History!Bucket, History!LabelDays,
     History!HasResidual
<1>3. steps \in 0..freq
  BY <1>1, StepsInPeriod DEF HistoryInv
<1>4. histories' = [r \in 0..freq |-> histories'[r]]
  BY <1>2 DEF HistoryInv
<1>5. ASSUME NEW r \in 0..freq, NEW e \in histories'[r]
      PROVE  /\ e.day \in Nat /\ e.day < pos + 1
             /\ r > 0 /\ History!RemainingSteps(e.day) = r
             /\ e.reads = e.day..(e.day + r - 1)
  <2>1. CASE e \in histories[r]
    BY <1>1, <2>1 DEF HistoryInv, EntriesTrue
  <2>2. CASE e \notin histories[r]
    BY <1>2, <1>3, <2>2 DEF HistoryInv
  <2> QED BY <2>1, <2>2
<1>6. EntriesTrue'
  BY <1>1, <1>5 DEF EntriesTrue, History!RemainingSteps
<1> QED BY <1>1, <1>4, <1>6 DEF HistoryInv

\* Every step keeps the part and its invariant.
LEMMA StepInv == Inv /\ [Next]_vars => Inv'
<1> SUFFICES ASSUME Inv, [Next]_vars PROVE Inv'
  OBVIOUS
<1>1. ASSUME UNCHANGED <<part, case, historyVars>>,
             part = "weights" => UNCHANGED weightVars \/ Weights!Next
      PROVE  Inv'
  <2>1. TopkCase' = TopkCase
    BY <1>1 DEF TopkCase
  <2>2. MetadataCase' = MetadataCase
    BY <1>1 DEF MetadataCase
  <2>3. ProvenanceCase' = ProvenanceCase
    BY <1>1 DEF ProvenanceCase
  <2>4. SourceCase' = SourceCase
    BY <1>1 DEF SourceCase
  <2>5. RiskCase' = RiskCase
    BY <1>1 DEF RiskCase
  <2>6. FactorCase' = FactorCase
    BY <1>1 DEF FactorCase
  <2>7. EvidenceCase' = EvidenceCase
    BY <1>1 DEF EvidenceCase
  <2>8. SelectionCase' = SelectionCase
    BY <1>1 DEF SelectionCase
  <2>9. HistoryInv' = HistoryInv
    BY <1>1 DEF HistoryInv, EntriesTrue, historyVars, History!RemainingSteps
  <2>10. part = "weights" => WeightsInv'
    BY <1>1, WeightsStep, WeightsUnchanged DEF Inv
  <2> QED BY <1>1, <2>1, <2>2, <2>3, <2>9, <2>10, <2>4, <2>5, <2>6, <2>7, <2>8
      DEF Inv
<1>2. CASE HistoryStep
  <2>1. part = "history" /\ part' = part /\ History!Next
    BY <1>2 DEF HistoryStep
  <2>2. HistoryInv
    BY <2>1 DEF Inv
  <2>3. CASE History!Done
    BY <2>2, <2>3, <1>2, <1>1 DEF HistoryStep, History!Done, History!vars, History!params, historyVars
  <2> QED
    BY <2>1, <2>2, <2>3, EstimateKeeps, AppendKeeps DEF Inv, History!Next
<1>3. CASE Answer
  BY <1>1, <1>3 DEF Answer
<1>4. CASE WeightStep
  BY <1>1, <1>4 DEF WeightStep
<1>5. CASE UNCHANGED vars
  BY <1>1, <1>5 DEF vars
<1> QED BY <1>2, <1>3, <1>4, <1>5 DEF Next

\* The invariant holds in every run.
LEMMA InvHolds == Spec => []Inv
BY InitInv, StepInv, PTL DEF Spec

(***************************************************************************)
(* Whatever the length of a run and of its periods and whichever labels    *)
(* are missing, an early exit is estimated only from labels of days before *)
(* it, over as many days as it has left, and nothing is read beyond the    *)
(* matrix (IntraperiodExpectedReturnState).                                *)
(***************************************************************************)
THEOREM EstimatesLookBack == Spec => []NoLookahead
<1>1. ASSUME HistoryInv, used # {}
      PROVE  \A e \in used : /\ \A d \in e.reads : d < pos
                             /\ Cardinality(e.reads) = History!RemainingSteps(pos)
  <2> DEFINE steps == History!RemainingSteps(pos)
  <2>1. steps > 0 /\ used = histories[steps] /\ pos < nDates
    BY <1>1 DEF HistoryInv
  <2>2. steps \in 0..freq
    BY <2>1, <1>1, StepsInPeriod DEF HistoryInv
  <2>3. ASSUME NEW e \in used
        PROVE  (\A d \in e.reads : d < pos) /\ Cardinality(e.reads) = steps
    <3>1. /\ e.day \in Nat /\ e.day < pos /\ History!RemainingSteps(e.day) = steps
          /\ e.reads = e.day..(e.day + steps - 1)
      BY <1>1, <2>1, <2>2, <2>3 DEF HistoryInv, EntriesTrue
    <3>2. e.day + steps <= pos
      BY <1>1, <2>1, <3>1, EarlierPeriodIsOver DEF HistoryInv
    <3> HIDE DEF steps
    <3>3. Cardinality(e.reads) = steps
      <4>1. /\ e.day \in Int /\ (e.day + steps - 1) \in Int /\ steps \in Nat /\ steps > 0
        BY <2>1, <2>2, <3>1, <1>1 DEF HistoryInv
      <4>2. Cardinality(e.day..(e.day + steps - 1))
              = IF e.day > e.day + steps - 1 THEN 0 ELSE (e.day + steps - 1) - e.day + 1
        BY <4>1, FS_Interval
      <4> QED BY <3>1, <4>1, <4>2
    <3> QED BY <1>1, <2>2, <3>1, <3>2, <3>3 DEF HistoryInv
  <2> QED BY <2>3
<1>2. ASSUME HistoryInv, pos < nDates
      PROVE  /\ History!RemainingSteps(pos) \in DOMAIN histories
             /\ \A d \in History!LabelDays(pos) : d < nDates
  BY <1>2, StepsInPeriod DEF HistoryInv, History!LabelDays
<1>3. \A S : History!Cardinality(S) = Cardinality(S)
  BY DEF History!Cardinality, Cardinality
<1>4. Inv => NoLookahead
  BY <1>1, <1>2, <1>3 DEF Inv, NoLookahead, History!NoLookahead, History!SameHorizon, History!IndicesInRange
<1> QED BY <1>4, InvHolds, PTL

(***************************************************************************)
(* For every number of stocks, all raw weights, groups and caps: the       *)
(* weights never promise more than the budget, and spend all of it unless  *)
(* every cap is reached; no stock or group ends over its cap, and the      *)
(* ranking inside a group is kept (cap_weights, cap_group_weights).        *)
(***************************************************************************)
THEOREM WeightsAreSound == Spec => []WeightsSound
<1>1. Inv => WeightsSound
  BY InvIsSound DEF Inv, WeightsSound, Sound
<1> QED BY <1>1, InvHolds, PTL

\* What a rebalance is drawn from.
LEMMA CaseOfARebalance ==
  ASSUME TopkCase
  PROVE  /\ ScoreRow(case.scores) /\ case.current \in SUBSET Stocks
         /\ case.locked \in SUBSET case.current /\ case.nDrop \in Nat
         /\ Cardinality(case.current) <= TopK
<1>1. PICK current \in {S \in SUBSET Stocks : Cardinality(S) <= TopK} :
        \E locked \in SUBSET current, nDrop \in 0..TopK,
           scores \in [Stocks -> ScoreVals \cup {NaN}] :
          case = [scores |-> scores, current |-> current, locked |-> locked, nDrop |-> nDrop]
  BY DEF TopkCase
<1>2. PICK locked \in SUBSET current, nDrop \in 0..TopK,
           scores \in [Stocks -> ScoreVals \cup {NaN}] :
        case = [scores |-> scores, current |-> current, locked |-> locked, nDrop |-> nDrop]
  BY <1>1
<1>3. ScoreRow(scores)
  BY InputAssumption DEF ScoreRow, Finite
<1> QED BY <1>1, <1>2, <1>3

(***************************************************************************)
(* The trades of any rebalance, of any universe, portfolio, limit and      *)
(* scores, can be executed as they stand and waste no slot                 *)
(* (select_topk_dropout_trades).                                           *)
(***************************************************************************)
THEOREM EveryRebalanceExecutable == Spec => []TradesExecutable
<1>1. Inv => TradesExecutable
  <2> SUFFICES ASSUME Inv, Of("topk") PROVE TradesExecutable
    BY DEF TradesExecutable
  <2> DEFINE scores == case.scores
             current == case.current
             locked == case.locked
             nDrop == case.nDrop
             sells == SellList(scores, current, locked, nDrop)
             buys == BuyList(scores, current, locked, nDrop)
  <2>1. /\ ScoreRow(scores) /\ current \in SUBSET Stocks /\ locked \in SUBSET current
        /\ nDrop \in Nat /\ Cardinality(current) <= TopK
    BY CaseOfARebalance DEF Inv, Of
  <2> HIDE DEF scores, current, locked, nDrop
  <2>2. /\ sells \subseteq current \ locked
        /\ buys \cap current = {}
        /\ Cardinality((current \ sells) \cup buys) <= TopK
        /\ \/ Cardinality((current \ sells) \cup buys) = TopK
           \/ Eligible(scores) \ current \subseteq buys
    BY <2>1, SelectionExecutable
  <2> QED BY <2>2 DEF TradesExecutable, Sold, Bought, Staying, NotHeld, scores, current, locked, nDrop
<1> QED BY <1>1, InvHolds, PTL

(***************************************************************************)
(* No rebalance trades down, nor sells from the buffer for a rank          *)
(* (select_topk_dropout_trades).                                           *)
(***************************************************************************)
THEOREM NoRebalanceTradesDown == Spec => []NoWorseSwap
<1>1. Inv => NoWorseSwap
  BY CaseOfARebalance, NeverTradesDown DEF NoWorseSwap, Inv, Of, Sold, Bought,
     NotHeld
<1> QED BY <1>1, InvHolds, PTL

(***************************************************************************)
(* A fused score of any run depends on the scores of its day only          *)
(* (fuse_predictions).                                                     *)
(***************************************************************************)
THEOREM FusionLooksAtItsDay == Spec => []FusionPointInTime
<1>1. FusionPointInTime
  BY FusionOfADay DEF FusionPointInTime
<1> QED BY <1>1, PTL

(***************************************************************************)
(* The baselines at fixed risk have every day of the strategy, of every    *)
(* bundle (build_fixed_risk_baselines).                                    *)
(***************************************************************************)
THEOREM BaselinesOnEveryDay == Spec => []FixedRiskOnEveryDay
<1>1. FixedRiskOnEveryDay
  BY BaselinesKeepTheDays DEF FixedRiskOnEveryDay
<1> QED BY <1>1, PTL

(***************************************************************************)
(* A bundle whose metadata is true is accepted only with daily labels,     *)
(* unless another program than the native trainer wrote it and it says     *)
(* nothing of them (validate_backtest_label_metadata_value).               *)
(***************************************************************************)
THEOREM AcceptedLabelsAreDaily == Spec => []LabelsAreDaily
<1>1. Inv => LabelsAreDaily
  BY SentinelAssumption DEF Inv, LabelsAreDaily, Unstated, Of, MetadataCase,
     Bundle!LabelMetadataOk
<1> QED BY <1>1, InvHolds, PTL

(***************************************************************************)
(* Every row of the source that is drawn says what was known on its day of *)
(* prices and events, whatever has been collected since, and of its        *)
(* industry what the classification of its day gives, unless the industry  *)
(* has gained or lost a member since: its map is that of the present       *)
(* (build_processed_rows, load_sidecar_series, asof_industry_context).     *)
(***************************************************************************)
THEOREM SourceLooksBack == Spec => []SourcePointInTime
<1>1. Inv => SourcePointInTime
  <2> SUFFICES ASSUME SourceCase PROVE SourcePointInTime
    BY DEF Inv, SourcePointInTime, Of
  <2>1. MarketOk(case.market)
    BY DrawnMarketOk
  <2>2. ASSUME NEW s \in DOMAIN case.market, NEW d \in DOMAIN case.market[s].daily
        PROVE  RowLooksBack(case.market, case.industry, case.classified[d], s, d)
    BY <2>1, RowsArePointInTime
  <2> QED BY <2>2 DEF SourcePointInTime, RowLooksBack, Reclassified
<1> QED BY <1>1, InvHolds, PTL

(***************************************************************************)
(* The degree of risk of a day is the same for all that is known by that   *)
(* day, and under a configuration the parser lets through every day has    *)
(* one within the account (build_risk_schedule_values).                    *)
(***************************************************************************)
THEOREM RiskLooksBack == Spec => []RiskPointInTime
<1>1. Inv => RiskPointInTime
  <2> SUFFICES ASSUME RiskCase PROVE RiskPointInTime
    BY DEF Inv, RiskPointInTime, Of
  <2> DEFINE input == case.input
             cfg == case.cfg
  <2>1. RiskInputOk(input) /\ RiskConfigTyped(cfg)
    BY DrawnRiskOk
  <2> HIDE DEF input, cfg
  <2>2. ASSUME NEW d \in DOMAIN input.scores
        PROVE  /\ Risk!Schedule(KnownBy(input, d), cfg)[d] = Risk!Schedule(input, cfg)[d]
               /\ Risk!RiskConfigOk(cfg) => Risk!Schedule(input, cfg)[d] \in 0..RiskUnit
    BY <2>1, ScheduleLooksBack, ScheduleInRange DEF RiskConfigTyped
  <2> QED BY <2>2, SentinelAssumption DEF RiskPointInTime, input, cfg
<1> QED BY <1>1, InvHolds, PTL

(***************************************************************************)
(* No factor that is drawn reads a later row, and none of a window the     *)
(* rows before it (alpha158_features and the kernels after it).            *)
(***************************************************************************)
THEOREM FactorsInTheirWindow == Spec => []FactorsReadTheirWindow
<1>1. Inv => FactorsReadTheirWindow
  <2> SUFFICES ASSUME FactorCase PROVE FactorsReadTheirWindow
    BY DEF Inv, FactorsReadTheirWindow, Of
  <2> DEFINE windowed == Factors!Windowed(case.x, 2)
             unbounded == Factors!Unbounded(case.x, 2)
  <2>1. RecordReads(windowed, 6, 3) /\ RecordReads(unbounded, 6, 6)
    BY DrawnSourceOk, FactorsLookBack
  <2>2. ASSUME NEW t \in 1..6, NEW v
        PROVE  /\ WithinRows(v, BackTo(t, 3), t) => WithinRows(v, t - 3, t)
               /\ WithinRows(v, BackTo(t, 6), t) => WithinRows(v, 1, t)
    BY DEF BackTo, WithinRows
  <2> HIDE DEF windowed, unbounded
  <2> QED
    BY <2>1, <2>2 DEF FactorsReadTheirWindow, windowed, unbounded, RecordReads,
       Reads
<1> QED BY <1>1, InvHolds, PTL

(***************************************************************************)
(* Of what is drawn, a column that is left out as a duplicate is the one   *)
(* kept in its place, and the one training reads for it is stored          *)
(* (deduplicate_exact_feature_columns, canonical_feature_source).          *)
(***************************************************************************)
THEOREM DuplicatesAlike == Spec => []DuplicatesAgree
<1>1. Inv => DuplicatesAgree
  BY DrawnSourceOk, DuplicatesEqual DEF Inv, DuplicatesAgree, Of
<1> QED BY <1>1, InvHolds, PTL

(***************************************************************************)
(* Of what is drawn, the evidence of a segment is what a run over its days *)
(* alone finds, the years of a range are all of it and overlap nowhere,    *)
(* and the months beside a summary are those it was made from              *)
(* (run_single_factor_diagnostics, resolve_segments).                      *)
(***************************************************************************)
THEOREM EvidenceOfSegmentsAlone == Spec => []SegmentsAreRuns
<1>1. Inv => SegmentsAreRuns
  BY SegmentsHold DEF Inv, SegmentsAreRuns, Of
<1> QED BY <1>1, InvHolds, PTL

(***************************************************************************)
(* The robust selection that is drawn keeps only what either summary would *)
(* keep, no two of a profile are duplicates or too much alike, and what    *)
(* passes and is left out gave way to a better one (passes_prefilter,      *)
(* build_robust_feature_summary, prune_correlated_rows).                   *)
(***************************************************************************)
THEOREM SelectionIsSound == Spec => []SelectionJustified
<1>1. Inv => SelectionJustified
  BY SelectionHolds DEF Inv, SelectionJustified, Of
<1> QED BY <1>1, InvHolds, PTL

(***************************************************************************)
(* Without the override no profile is made of evidence from after the      *)
(* training days, if directories are written as the property says          *)
(* (profile_write_safety_warning, check_diagnostics_provenance_safety).    *)
(***************************************************************************)
THEOREM ProfilesAreFromTraining == Spec => []ProfilesFromTraining
<1>1. Inv => ProfilesFromTraining
  <2> SUFFICES ASSUME ProvenanceCase,
                      \/ case.first = None
                      \/ case.written \in {0, 3} /\ (case.first.segmented => case.second.segmented),
                      Found!MayWrite(Days(2, 3), case.days, case.dirs, FALSE),
                      NEW range \in {case.dirs[n].summary : n \in DOMAIN case.dirs}
                                     \cup {case.dirs[n].comparison : n \in DOMAIN case.dirs}
                                     \cup {case.days},
                      range # None
               PROVE  range[2] <= 2
    BY DEF Inv, ProfilesFromTraining, Of
  <2>1. PICK first \in DiagnosticRuns \cup {None}, second \in DiagnosticRuns, written \in 0..3,
             other \in {None, [period |-> "train", from |-> 1, to |-> 2, segmented |-> TRUE]},
             days \in {<<1, 2>>, <<1, 3>>} :
          case = [first |-> first, second |-> second, written |-> written, days |-> days,
                  dirs |-> <<Found!Written(IF first = None THEN Found!NoDirectory
                                           ELSE Found!Written(Found!NoDirectory, first, 3),
                                           second, written)>>
                             \o (IF other = None THEN <<>>
                                 ELSE <<Found!Written(Found!NoDirectory, other, 3)>>)]
    BY DEF ProvenanceCase
  <2> DEFINE before == IF first = None THEN Found!NoDirectory
                       ELSE Found!Written(Found!NoDirectory, first, 3)
             after == Found!Written(before, second, written)
             beside == Found!Written(Found!NoDirectory, other, 3)
  <2>2. /\ Found!NoDirectory.comparison = None /\ Found!NoDirectory.manifest = None
        /\ first # None => /\ OneRange(before)
                           /\ ~first.segmented => before.comparison = None
    BY WholeRunsLeaveOneRange DEF Found!NoDirectory, Found!Written
  <2>3. OneRange(after)
    <3>1. CASE written = 3
      BY <2>1, <2>2, <3>1, WholeRunsLeaveOneRange
    <3>2. CASE written # 3 /\ first = None
      BY <2>2, <3>2 DEF OneRange, Found!Written
    <3>3. CASE written = 0 /\ first # None
      BY <2>2, <3>3 DEF OneRange, Found!Written
    <3> QED BY <2>1, <3>1, <3>2, <3>3
  <2>4. OneRange(beside)
    BY <2>2, WholeRunsLeaveOneRange
  <2> HIDE DEF after, beside
  <2>5. \A n \in DOMAIN case.dirs : case.dirs[n] \in {after, beside}
    BY <2>1 DEF after, beside
  <2>6. \A n \in DOMAIN case.dirs : OneRange(case.dirs[n])
    BY <2>3, <2>4, <2>5
  <2>7. Found!InTraining(Days(2, 3), range)
    <3> DEFINE time == Days(2, 3)
               dirs == case.dirs
               trained == case.days
    <3>1. Found!MayWrite(time, trained, dirs, FALSE) /\ \A n \in DOMAIN dirs : OneRange(dirs[n])
      BY <2>6
    <3> HIDE DEF time, dirs, trained
    <3>2. /\ Found!InTraining(time, trained)
          /\ \A n \in DOMAIN dirs :
               /\ dirs[n].summary # None => Found!InTraining(time, dirs[n].summary)
               /\ dirs[n].comparison # None => Found!InTraining(time, dirs[n].comparison)
      BY <3>1, WrittenFromTraining
    <3>3. \/ range = trained
          \/ \E n \in DOMAIN dirs : range = dirs[n].summary \/ range = dirs[n].comparison
      BY DEF dirs, trained
    <3> QED BY <3>2, <3>3 DEF time
  <2> QED BY <2>7 DEF Found!InTraining, Days
<1> QED BY <1>1, InvHolds, PTL

=============================================================================
