---------------------------- MODULE TopkDropout ----------------------------
(***************************************************************************)
(* select_topk_dropout_trades (src_rust/engine.rs): which holdings a       *)
(* rebalance day sells and which stocks it buys.                           *)
(*                                                                         *)
(* The code works on vectors indexed by stock and on ranked index lists;   *)
(* every list is used as "the best n of a set" or "the worst n of a set",  *)
(* so the lists are sets here and the ranking is the total order Better.   *)
(* A missing (non-finite) score is NaN, an absent Option is None.          *)
(***************************************************************************)
EXTENDS Integers, FiniteSets

CONSTANTS
  Stocks,    \* instrument indices: 1..n, the order breaks score ties
  NaN,       \* a non-finite score or return
  None,      \* an absent Option
  TopK,      \* BacktestParams.topk
  MinScore,  \* BacktestParams.min_score: an integer or None
  KeepTopN   \* BacktestParams.keep_top_n: a natural or None

ASSUME StocksAssumption == Stocks \subseteq Nat /\ IsFiniteSet(Stocks)
ASSUME SentinelAssumption == NaN \notin Int /\ None \notin Int
ASSUME SelectionAssumption ==
  /\ TopK \in Nat \ {0}
  /\ MinScore \in Int \cup {None}
  /\ KeepTopN \in Nat \cup {None}

Smaller(a, b) == IF a <= b THEN a ELSE b
Larger(a, b) == IF a >= b THEN a ELSE b

-----------------------------------------------------------------------------
(* The ranking.                                                            *)

Finite(scores) == {s \in Stocks : scores[s] # NaN}

\* Higher score first, ties by index.
Better(scores, s, t) ==
  \/ scores[s] > scores[t]
  \/ scores[s] = scores[t] /\ s < t

\* The n best, and the n worst, members of S.
Top(scores, S, n) ==
  {s \in S : Cardinality({t \in S : Better(scores, t, s)}) < n}

Bottom(scores, S, n) ==
  {s \in S : Cardinality({t \in S : Better(scores, s, t)}) < n}

Eligible(scores) ==
  {s \in Finite(scores) : MinScore = None \/ scores[s] > MinScore}

-----------------------------------------------------------------------------
(* The selection, over the held stocks and the locked ones among them.     *)

\* A bug: a locked holding can be forced out.
ForcedSellLocked(scores, current, locked) == current \ Eligible(scores)

\* Unlocked holdings that are no longer eligible leave whatever their rank.
ForcedSell(scores, current, locked) ==
  (current \ locked) \ Eligible(scores)

\* Holdings inside the keep_top_n buffer are not candidates for the drop.
BufferProtected(scores, current, locked) ==
  IF KeepTopN = None
  THEN {}
  ELSE (current \ locked) \cap Top(scores, Eligible(scores), KeepTopN)

Sellable(scores, current, locked) ==
  ((current \ locked) \cap Eligible(scores))
     \ BufferProtected(scores, current, locked)

Shortfall(current) == Larger(TopK - Cardinality(current), 0)

\* The best stocks not held. The loop that fills the list tests its length
\* only after a push, so it takes one stock even when none is wanted.
Today(scores, current, locked, nDrop) ==
  Top(scores, Eligible(scores) \ current,
      Larger(1, Cardinality(ForcedSell(scores, current, locked))
                  + nDrop + Shortfall(current)))

\* A bug: the worst holdings leave however bad the candidates are.
DroppedAlone(scores, current, locked, nDrop) ==
  Bottom(scores, Sellable(scores, current, locked), nDrop)

\* The drop: the worst of holdings and candidates ranked together.
Dropped(scores, current, locked, nDrop) ==
  LET sellable == Sellable(scores, current, locked)
  IN  sellable \cap
        Bottom(scores, sellable \cup Today(scores, current, locked, nDrop),
               Smaller(nDrop, Cardinality(sellable)))

SellList(scores, current, locked, nDrop) ==
  IF Eligible(scores) = {}
  THEN IF MinScore = None THEN {} ELSE current \ locked
  ELSE ForcedSell(scores, current, locked)
         \cup Dropped(scores, current, locked, nDrop)

\* A bug: n_drop stocks are bought however many were sold.
BuyListUncounted(scores, current, locked, nDrop) ==
  Top(scores, Today(scores, current, locked, nDrop), nDrop + Shortfall(current))

BuyList(scores, current, locked, nDrop) ==
  IF Eligible(scores) = {}
  THEN {}
  ELSE Top(scores, Today(scores, current, locked, nDrop),
           Cardinality(SellList(scores, current, locked, nDrop))
             + Shortfall(current))
=============================================================================
