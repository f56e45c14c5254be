---------------------------- MODULE DataTheorems ----------------------------
(***************************************************************************)
(* What the data operators of the modules compute, for every argument:     *)
(* the ends of sets of numbers for tables, ranks in a set for selections   *)
(* of trades, sums over finite sets (SumFunctionOnSet, which folds + over  *)
(* a set) for cash and weights, and the filter Kept for the collectors'    *)
(* queues. Induction is by a smallest counterexample, so that every step   *)
(* is first order.                                                         *)
(***************************************************************************)
EXTENDS Integers, Functions, Filtering, SequenceTheorems, FiniteSetTheorems,
        WellFoundedInduction, TLAPS

-----------------------------------------------------------------------------
(* Sets of numbers.                                                        *)

\* A non-empty set of naturals has a least member.
LEMMA LeastExists ==
  ASSUME NEW S \in SUBSET Nat, S # {}
  PROVE  \E x \in S : \A y \in S : x <= y
<1>1. \E x \in S : \A y \in S : <<y, x>> \notin OpToRel(<, Nat)
  BY WFMin, NatLessThanWellFounded, Zenon
<1>2. \E x \in S : \A y \in S : ~(y < x)
  BY <1>1, Zenon DEF OpToRel
<1> QED BY <1>2

\* The mirror image: the least of the distances to n.
LEMMA GreatestExists ==
  ASSUME NEW n \in Nat, NEW S \in SUBSET 0..n, S # {}
  PROVE  \E x \in S : \A y \in S : x >= y
<1> DEFINE T == {n - x : x \in S}
<1>1. T \in SUBSET Nat /\ T # {}
  <2>1. \A x \in S : n - x \in Nat
    OBVIOUS
  <2>2. \A x \in S : n - x \in T
    OBVIOUS
  <2> QED BY <2>1, <2>2
<1>2. PICK z \in T : \A y \in T : z <= y
  <2> HIDE DEF T
  <2> QED BY <1>1, LeastExists
<1>3. PICK x \in S : z = n - x
  BY <1>2
<1>4. \A y \in S : n - x <= n - y
  BY <1>2, <1>3
<1> QED BY <1>4

(***************************************************************************)
(* A finite set of numbers is bounded: a smallest one that is not would    *)
(* leave a bounded set when an element is taken away.                      *)
(***************************************************************************)
LEMMA FiniteIsBounded ==
  ASSUME NEW S \in SUBSET Nat, IsFiniteSet(S)
  PROVE  \E n \in Nat : \A x \in S : x <= n
<1> DEFINE Bounded(T) == \E n \in Nat : \A x \in T : x <= n
           Unbounded == {T \in FiniteSubsetsOf(S) : ~Bounded(T)}
<1>1. S \in FiniteSubsetsOf(S)
  BY DEF FiniteSubsetsOf
<1>2. SUFFICES ASSUME Unbounded # {} PROVE FALSE
  BY <1>1
<1>3. PICK T \in Unbounded : \A U \in Unbounded : <<U, T>> \notin StrictSubsetOrdering(S)
  <2>1. Unbounded \subseteq FiniteSubsetsOf(S)
    OBVIOUS
  <2> HIDE DEF Unbounded
  <2> QED BY <1>2, <2>1, WFMin, FS_StrictSubsetOrderingWellFounded, Zenon
<1>4. T \subseteq S /\ IsFiniteSet(T) /\ ~Bounded(T)
  BY DEF FiniteSubsetsOf
<1>5. PICK x \in T : x \in Nat
  BY <1>4
<1>6. T \ {x} \in FiniteSubsetsOf(S)
  BY <1>4, FS_Subset DEF FiniteSubsetsOf
<1>7. <<T \ {x}, T>> \in StrictSubsetOrdering(S)
  BY <1>4, <1>5 DEF StrictSubsetOrdering
<1>8. PICK n \in Nat : \A y \in T \ {x} : y <= n
  BY <1>3, <1>6, <1>7
<1>9. \A y \in T : y <= n + x
  BY <1>4, <1>5, <1>8
<1> QED BY <1>4, <1>5, <1>9

-----------------------------------------------------------------------------
(* Ranks in a finite set.                                                  *)

\* R is a strict total order of S.
Orders(R, S) ==
  /\ \A x \in S : <<x, x>> \notin R
  /\ \A x, y \in S : x # y => <<x, y>> \in R \/ <<y, x>> \in R
  /\ \A x, y, z \in S : <<x, y>> \in R /\ <<y, z>> \in R => <<x, z>> \in R

Ahead(R, S, x) == {y \in S : <<y, x>> \in R}
First(R, S, n) == {x \in S : Cardinality(Ahead(R, S, x)) < n}

\* Ranks are numbers below the size of the set.
LEMMA RankBelowSize ==
  ASSUME NEW S, IsFiniteSet(S), NEW R, Orders(R, S), NEW x \in S
  PROVE  /\ IsFiniteSet(Ahead(R, S, x))
         /\ Cardinality(Ahead(R, S, x)) \in 0..(Cardinality(S) - 1)
<1> DEFINE A == Ahead(R, S, x)
<1>1. A \in SUBSET (S \ {x})
  BY DEF Ahead, Orders
<1>2. /\ IsFiniteSet(S \ {x}) /\ Cardinality(S \ {x}) = Cardinality(S) - 1
      /\ Cardinality(S) \in Nat
  BY FS_RemoveElement, FS_CardinalityType
<1> HIDE DEF A
<1>3. IsFiniteSet(A) /\ Cardinality(A) <= Cardinality(S \ {x}) /\ Cardinality(A) \in Nat
  BY <1>1, <1>2, FS_Subset, FS_CardinalityType
<1>4. IsFiniteSet(A) /\ Cardinality(A) \in 0..(Cardinality(S) - 1)
  BY <1>2, <1>3
<1> QED BY <1>4 DEF A

\* A member behind another has the greater rank.
LEMMA RankGrows ==
  ASSUME NEW S, IsFiniteSet(S), NEW R, Orders(R, S), NEW x \in S, NEW y \in S,
         <<x, y>> \in R
  PROVE  Cardinality(Ahead(R, S, x)) < Cardinality(Ahead(R, S, y))
<1> DEFINE A == Ahead(R, S, x)
           B == Ahead(R, S, y)
<1>1. A \in SUBSET B /\ A # B
  BY DEF Ahead, Orders
<1>2. IsFiniteSet(B) /\ Cardinality(B) \in Nat /\ IsFiniteSet(A) /\ Cardinality(A) \in Nat
  BY RankBelowSize
<1> HIDE DEF A, B
<1>3. Cardinality(A) < Cardinality(B)
  BY <1>1, <1>2, FS_Subset
<1> QED BY <1>3 DEF A, B

(***************************************************************************)
(* The members of a finite ordered set have the ranks from 0 to its size   *)
(* less one, each of them one rank.                                        *)
(***************************************************************************)
LEMMA EveryRankOnce ==
  ASSUME NEW S, IsFiniteSet(S), NEW R, Orders(R, S)
  PROVE  [x \in S |-> Cardinality(Ahead(R, S, x))] \in Bijection(S, 0..(Cardinality(S) - 1))
<1> DEFINE rank == [x \in S |-> Cardinality(Ahead(R, S, x))]
           Places == 0..(Cardinality(S) - 1)
<1>1. Cardinality(S) \in Nat
  BY FS_CardinalityType
<1>2. IsFiniteSet(Places) /\ Cardinality(Places) = Cardinality(S)
  BY <1>1, FS_Interval
<1>3. rank \in [S -> Places]
  BY RankBelowSize
<1>4. \A x, y \in S : rank[x] = rank[y] => x = y
  <2> SUFFICES ASSUME NEW x \in S, NEW y \in S, x # y PROVE rank[x] # rank[y]
    OBVIOUS
  <2>1. <<x, y>> \in R \/ <<y, x>> \in R
    BY DEF Orders
  <2>2. rank[x] < rank[y] \/ rank[y] < rank[x]
    BY <2>1, RankGrows
  <2>3. rank[x] \in Int /\ rank[y] \in Int
    BY <1>3
  <2> HIDE DEF rank
  <2> QED BY <2>2, <2>3
<1> HIDE DEF rank, Places
<1>5. rank \in Injection(S, Places)
  BY <1>3, <1>4 DEF Injection, IsInjective
<1>6. rank \in Surjection(S, Places)
  BY <1>2, <1>5, FS_Injection
<1>7. rank \in Bijection(S, Places)
  BY <1>5, <1>6 DEF Bijection
<1> QED BY <1>7 DEF rank, Places

(***************************************************************************)
(* The n first members of a finite ordered set are n, or all of them.      *)
(***************************************************************************)
THEOREM FirstSize ==
  ASSUME NEW S, IsFiniteSet(S), NEW R, Orders(R, S), NEW n \in Nat
  PROVE  /\ IsFiniteSet(First(R, S, n))
         /\ Cardinality(First(R, S, n)) = IF n <= Cardinality(S) THEN n ELSE Cardinality(S)
<1> DEFINE rank == [x \in S |-> Cardinality(Ahead(R, S, x))]
           F == First(R, S, n)
<1>1. Cardinality(S) \in Nat
  BY FS_CardinalityType
<1>2. rank \in Bijection(S, 0..(Cardinality(S) - 1))
  BY EveryRankOnce
<1>3. F = {x \in S : rank[x] < n}
  BY DEF First
<1>4. IsFiniteSet(F)
  BY <1>3, FS_Subset
<1> HIDE DEF rank, F
<1>5. /\ rank \in [S -> 0..(Cardinality(S) - 1)]
      /\ \A x, y \in S : rank[x] = rank[y] => x = y
      /\ \A i \in 0..(Cardinality(S) - 1) : \E x \in S : rank[x] = i
  BY <1>2 DEF Bijection, Injection, Surjection, IsInjective
<1>6. CASE n <= Cardinality(S)
  <2> DEFINE f == [x \in F |-> rank[x]]
  <2>1. f \in [F -> 0..(n - 1)]
    BY <1>3, <1>5
  <2>2. \A x, y \in F : f[x] = f[y] => x = y
    BY <1>3, <1>5
  <2>3. \A i \in 0..(n - 1) : \E x \in F : f[x] = i
    <3> SUFFICES ASSUME NEW i \in 0..(n - 1) PROVE \E x \in F : f[x] = i
      OBVIOUS
    <3>1. i \in 0..(Cardinality(S) - 1)
      BY <1>1, <1>6
    <3>2. PICK x \in S : rank[x] = i
      BY <1>5, <3>1
    <3> QED BY <1>3, <3>2
  <2> HIDE DEF f
  <2>4. f \in Injection(F, 0..(n - 1)) /\ f \in Surjection(F, 0..(n - 1))
    BY <2>1, <2>2, <2>3 DEF Injection, Surjection, IsInjective
  <2>5. IsFiniteSet(0..(n - 1)) /\ Cardinality(0..(n - 1)) = n
    BY FS_Interval
  <2>6. Cardinality(F) = n
    BY <2>4, <2>5, FS_Injection
  <2> QED BY <1>4, <1>6, <2>6 DEF F
<1>7. CASE ~(n <= Cardinality(S))
  <2>1. F = S
    BY <1>1, <1>3, <1>5, <1>7
  <2> QED BY <1>4, <1>7, <2>1 DEF F
<1> QED BY <1>6, <1>7

\* A finite ordered set that is not empty has a first member.
LEMMA FirstMember ==
  ASSUME NEW S, IsFiniteSet(S), NEW R, Orders(R, S), S # {}
  PROVE  \E x \in S : \A y \in S \ {x} : <<x, y>> \in R
<1> DEFINE rank == [x \in S |-> Cardinality(Ahead(R, S, x))]
<1>1. Cardinality(S) \in Nat /\ Cardinality(S) # 0
  BY FS_CardinalityType, FS_EmptySet
<1>2. \A i \in 0..(Cardinality(S) - 1) : \E x \in S : rank[x] = i
  <2>1. rank \in Bijection(S, 0..(Cardinality(S) - 1))
    BY EveryRankOnce
  <2> HIDE DEF rank
  <2> QED BY <2>1 DEF Bijection, Surjection
<1>3. PICK x \in S : rank[x] = 0
  BY <1>1, <1>2
<1>4. Ahead(R, S, x) = {}
  BY <1>3, RankBelowSize, FS_EmptySet
<1> QED BY <1>4 DEF Ahead, Orders

-----------------------------------------------------------------------------
(* Sums over finite sets.                                                  *)

Pick(s) == CHOOSE x \in s : TRUE

IsSum(g, f, S) ==
  g = [s \in SUBSET S |-> IF s = {} THEN 0 ELSE f[Pick(s)] + g[s \ {Pick(s)}]]

(***************************************************************************)
(* Some member of a non-empty family of subsets of a finite set contains   *)
(* no other.                                                               *)
(***************************************************************************)
LEMMA SmallestSet ==
  ASSUME NEW S, IsFiniteSet(S), NEW B \in SUBSET (SUBSET S), B # {}
  PROVE  \E T \in B : \A U \in B : U \subseteq T => U = T
<1>1. B \subseteq FiniteSubsetsOf(S)
  BY FS_Subset DEF FiniteSubsetsOf
<1>2. PICK T \in B : \A U \in B : <<U, T>> \notin StrictSubsetOrdering(S)
  BY <1>1, WFMin, FS_StrictSubsetOrderingWellFounded, Zenon
<1> QED BY <1>2 DEF StrictSubsetOrdering

\* The fold takes an element of the set.
LEMMA PickIsIn ==
  ASSUME NEW s, s # {}
  PROVE  Pick(s) \in s
BY DEF Pick

(***************************************************************************)
(* The recursive function that the fold is made of exists on every finite  *)
(* set and there is only one.                                              *)
(***************************************************************************)
LEMMA SumUnique ==
  ASSUME NEW f, NEW S, IsFiniteSet(S), NEW g, NEW h, IsSum(g, f, S), IsSum(h, f, S)
  PROVE  g = h
<1> DEFINE B == {s \in SUBSET S : g[s] # h[s]}
<1>1. ASSUME B # {} PROVE FALSE
  <2>1. PICK T \in B : \A U \in B : U \subseteq T => U = T
    <3> HIDE DEF B
    <3>1. B \in SUBSET (SUBSET S)
      BY DEF B
    <3> QED BY <1>1, <3>1, SmallestSet
  <2>2. T # {}
    BY DEF IsSum
  <2>3. g[T] = f[Pick(T)] + g[T \ {Pick(T)}] /\ h[T] = f[Pick(T)] + h[T \ {Pick(T)}]
    BY <2>2 DEF IsSum
  <2>4. g[T \ {Pick(T)}] = h[T \ {Pick(T)}]
    BY <2>1, <2>2, PickIsIn
  <2> QED BY <2>3, <2>4
<1>2. /\ g = [s \in SUBSET S |-> g[s]]
      /\ h = [s \in SUBSET S |-> h[s]]
  BY DEF IsSum
<1> QED BY <1>1, <1>2

\* A table of partial sums serves for every subset.
LEMMA SumRestricted ==
  ASSUME NEW f, NEW S, NEW g, IsSum(g, f, S), NEW T \in SUBSET S
  PROVE  IsSum([s \in SUBSET T |-> g[s]], f, T)
<1> DEFINE h == [s \in SUBSET T |-> g[s]]
<1>1. ASSUME NEW s \in SUBSET T
      PROVE  h[s] = IF s = {} THEN 0 ELSE f[Pick(s)] + h[s \ {Pick(s)}]
  BY DEF IsSum
<1>2. h = [s \in SUBSET T |-> h[s]]
  OBVIOUS
<1> HIDE DEF h
<1>3. h = [s \in SUBSET T |-> IF s = {} THEN 0 ELSE f[Pick(s)] + h[s \ {Pick(s)}]]
  BY <1>1, <1>2
<1> QED BY <1>3 DEF IsSum, h

\* Every finite set has a table of partial sums: of a smallest set without
\* one, the set without its picked element has one, and one entry completes
\* it.
LEMMA SumExists ==
  ASSUME NEW f, NEW S, IsFiniteSet(S)
  PROVE  \E g : IsSum(g, f, S)
<1> DEFINE B == {s \in SUBSET S : ~\E g : IsSum(g, f, s)}
<1>1. SUFFICES ASSUME B # {} PROVE FALSE
  OBVIOUS
<1>2. PICK T \in B : \A U \in B : U \subseteq T => U = T
  <2> HIDE DEF B
  <2>1. B \in SUBSET (SUBSET S)
    BY DEF B
  <2> QED BY <1>1, <2>1, SmallestSet
<1>3. T \subseteq S /\ ~\E g : IsSum(g, f, T)
  OBVIOUS
<1>4. \A U \in SUBSET T : U # T => \E g : IsSum(g, f, U)
  BY <1>2
<1> HIDE DEF B
<1> DEFINE part(U) == CHOOSE g : IsSum(g, f, U)
           below(s) == IF s = {} THEN 0 ELSE f[Pick(s)] + part(s \ {Pick(s)})[s \ {Pick(s)}]
           g == [s \in SUBSET T |-> below(s)]
<1>5. ASSUME NEW s \in SUBSET T, s # {}
      PROVE  g[s] = f[Pick(s)] + g[s \ {Pick(s)}]
  <2> DEFINE u == s \ {Pick(s)}
  <2>1. u \in SUBSET T /\ u # T /\ IsFiniteSet(u)
    BY <1>3, <1>5, PickIsIn, FS_Subset
  <2>2. IsSum(part(u), f, u)
    BY <1>4, <2>1
  <2>3. part(u)[u] = below(u)
    <3>1. CASE u = {}
      BY <2>2, <3>1 DEF IsSum
    <3>2. CASE u # {}
      <4> DEFINE v == u \ {Pick(u)}
      <4>1. v \in SUBSET u /\ v \in SUBSET T /\ v # T /\ IsFiniteSet(v)
        BY <2>1, <3>2, PickIsIn, FS_Subset
      <4>2. IsSum(part(v), f, v)
        BY <1>4, <4>1
      <4>3. IsSum([s_1 \in SUBSET v |-> part(u)[s_1]], f, v)
        <5> HIDE DEF u, v, part
        <5> QED BY <2>2, <4>1, SumRestricted
      <4>4. part(v) = [s_1 \in SUBSET v |-> part(u)[s_1]]
        <5> HIDE DEF u, v, part
        <5> QED BY <4>1, <4>2, <4>3, SumUnique
      <4>5. part(v)[v] = part(u)[v]
        BY <4>4
      <4>6. part(u)[u] = f[Pick(u)] + part(u)[v]
        BY <2>2, <3>2 DEF IsSum
      <4> QED BY <3>2, <4>5, <4>6
    <3> QED BY <3>1, <3>2
  <2>4. g[s] = f[Pick(s)] + part(u)[u]
    BY <1>5
  <2>5. g[u] = below(u)
    BY <2>1
  <2> QED BY <2>3, <2>4, <2>5
<1>6. g[{}] = 0
  OBVIOUS
<1>7. g = [s \in SUBSET T |-> g[s]]
  OBVIOUS
<1> HIDE DEF g
<1>8. g = [s \in SUBSET T |-> IF s = {} THEN 0 ELSE f[Pick(s)] + g[s \ {Pick(s)}]]
  BY <1>5, <1>6, <1>7
<1> QED BY <1>3, <1>8 DEF IsSum

-----------------------------------------------------------------------------
(***************************************************************************)
(* The sum of no numbers is 0, and adding one number adds it, whichever it *)
(* is.                                                                     *)
(***************************************************************************)
LEMMA SumIsFold ==
  ASSUME NEW f, NEW S
  PROVE  SumFunctionOnSet(f, S) = (CHOOSE g : IsSum(g, f, S))[S]
BY Zenon DEF SumFunctionOnSet, FoldFunctionOnSet, MapThenFoldSet, IsSum, Pick

\* The fold is the recursion that it is written for.
LEMMA SumValue ==
  ASSUME NEW f, NEW S, IsFiniteSet(S)
  PROVE  SumFunctionOnSet(f, S) =
           IF S = {} THEN 0 ELSE f[Pick(S)] + SumFunctionOnSet(f, S \ {Pick(S)})
<1> DEFINE g == CHOOSE h : IsSum(h, f, S)
           T == S \ {Pick(S)}
<1>1. IsSum(g, f, S) /\ SumFunctionOnSet(f, S) = g[S]
  BY SumExists, SumIsFold
<1>2. T \in SUBSET S /\ IsFiniteSet(T)
  BY FS_Subset
<1> HIDE DEF g
<1>3. g[S] = IF S = {} THEN 0 ELSE f[Pick(S)] + g[T]
  BY <1>1 DEF IsSum
<1>4. SumFunctionOnSet(f, T) = g[T]
  <2> DEFINE h == CHOOSE k : IsSum(k, f, T)
             r == [s \in SUBSET T |-> g[s]]
  <2> HIDE DEF T
  <2>1. IsSum(h, f, T) /\ SumFunctionOnSet(f, T) = h[T]
    BY <1>2, SumExists, SumIsFold
  <2>2. IsSum(r, f, T)
    BY <1>1, <1>2, SumRestricted
  <2>3. r[T] = g[T]
    OBVIOUS
  <2> HIDE DEF h, r
  <2> QED BY <1>2, <2>1, <2>2, <2>3, SumUnique
<1> QED BY <1>1, <1>3, <1>4

\* The empty sum.
LEMMA SumEmpty ==
  ASSUME NEW f
  PROVE  SumFunctionOnSet(f, {}) = 0
BY FS_EmptySet, SumValue

(***************************************************************************)
(* Sums of integers are integers, of natural numbers natural.              *)
(***************************************************************************)
LEMMA SumInt ==
  ASSUME NEW S, IsFiniteSet(S), NEW f, \A s \in S : f[s] \in Int
  PROVE  SumFunctionOnSet(f, S) \in Int
<1> DEFINE B == {s \in SUBSET S : SumFunctionOnSet(f, s) \notin Int}
<1>1. SUFFICES ASSUME B # {} PROVE FALSE
  OBVIOUS
<1>2. PICK T \in B : \A U \in B : U \subseteq T => U = T
  <2> HIDE DEF B
  <2>1. B \in SUBSET (SUBSET S)
    BY DEF B
  <2> QED BY <1>1, <2>1, SmallestSet
<1>3. IsFiniteSet(T) /\ T # {} /\ T \subseteq S
  <2>1. T \subseteq S /\ T # {}
    BY SumEmpty
  <2> HIDE DEF B
  <2> QED BY <2>1, FS_Subset
<1>4. Pick(T) \in T /\ SumFunctionOnSet(f, T \ {Pick(T)}) \in Int
  BY <1>2, <1>3, PickIsIn
<1>5. SumFunctionOnSet(f, T) = f[Pick(T)] + SumFunctionOnSet(f, T \ {Pick(T)})
  BY <1>3, SumValue
<1> QED BY <1>2, <1>3, <1>4, <1>5

\* A sum of naturals is a natural.
LEMMA SumNat ==
  ASSUME NEW S, IsFiniteSet(S), NEW f, \A s \in S : f[s] \in Nat
  PROVE  SumFunctionOnSet(f, S) \in Nat
<1> DEFINE B == {s \in SUBSET S : SumFunctionOnSet(f, s) \notin Nat}
<1>1. SUFFICES ASSUME B # {} PROVE FALSE
  OBVIOUS
<1>2. PICK T \in B : \A U \in B : U \subseteq T => U = T
  <2> HIDE DEF B
  <2>1. B \in SUBSET (SUBSET S)
    BY DEF B
  <2> QED BY <1>1, <2>1, SmallestSet
<1>3. IsFiniteSet(T) /\ T # {} /\ T \subseteq S
  <2>1. T \subseteq S /\ T # {}
    BY SumEmpty
  <2> HIDE DEF B
  <2> QED BY <2>1, FS_Subset
<1>4. Pick(T) \in T /\ SumFunctionOnSet(f, T \ {Pick(T)}) \in Nat
  BY <1>2, <1>3, PickIsIn
<1>5. SumFunctionOnSet(f, T) = f[Pick(T)] + SumFunctionOnSet(f, T \ {Pick(T)})
  BY <1>3, SumValue
<1> QED BY <1>2, <1>3, <1>4, <1>5

\* Any element, not only the picked one, can be taken out of a sum.
LEMMA SumRemove ==
  ASSUME NEW S, IsFiniteSet(S), NEW f, \A s \in S : f[s] \in Int, NEW x \in S
  PROVE  SumFunctionOnSet(f, S) = f[x] + SumFunctionOnSet(f, S \ {x})
<1> DEFINE sum(s) == SumFunctionOnSet(f, s)
           B == {s \in SUBSET S : \E y \in s : sum(s) # f[y] + sum(s \ {y})}
<1>1. SUFFICES ASSUME B # {} PROVE FALSE
  OBVIOUS
<1>2. PICK T \in B : \A U \in B : U \subseteq T => U = T
  <2> HIDE DEF B
  <2>1. B \in SUBSET (SUBSET S)
    BY DEF B
  <2> QED BY <1>1, <2>1, SmallestSet
<1>3. PICK y \in T : sum(T) # f[y] + sum(T \ {y})
  OBVIOUS
<1> DEFINE c == Pick(T)
<1>4. T \subseteq S /\ IsFiniteSet(T) /\ c \in T
  BY FS_Subset, PickIsIn
<1>5. sum(T) = f[c] + sum(T \ {c})
  BY <1>3, <1>4, SumValue
<1>6. y # c
  BY <1>3, <1>5
<1> HIDE DEF c
<1>7. T \ {c} \notin B /\ T \ {y} \notin B
  BY <1>2, <1>4, <1>6
<1>8. sum(T \ {c}) = f[y] + sum((T \ {c}) \ {y})
  BY <1>4, <1>6, <1>7
<1>9. sum(T \ {y}) = f[c] + sum((T \ {y}) \ {c})
  BY <1>4, <1>6, <1>7
<1>10. (T \ {c}) \ {y} = (T \ {y}) \ {c}
  OBVIOUS
<1>11. sum((T \ {y}) \ {c}) \in Int
  <2>1. IsFiniteSet((T \ {y}) \ {c}) /\ (T \ {y}) \ {c} \subseteq S
    BY <1>4, FS_Subset
  <2> QED BY <2>1, SumInt
<1>12. f[c] \in Int /\ f[y] \in Int
  BY <1>4
<1>13. sum((T \ {c}) \ {y}) = sum((T \ {y}) \ {c})
  BY <1>10
<1>14. sum(T) = f[y] + sum(T \ {y})
  <2> DEFINE rest == sum((T \ {y}) \ {c})
  <2>1. /\ sum(T) = f[c] + (f[y] + rest)
        /\ f[y] + sum(T \ {y}) = f[y] + (f[c] + rest)
    BY <1>5, <1>8, <1>9, <1>13
  <2>2. rest \in Int
    BY <1>11
  <2> HIDE DEF rest, sum
  <2> QED BY <1>12, <2>1, <2>2
<1> QED BY <1>3, <1>14

-----------------------------------------------------------------------------
(***************************************************************************)
(* How sums compare: of functions that agree, that are within one another, *)
(* of a function within a sum of two others, and of a set and its subset.  *)
(***************************************************************************)
LEMMA SumLinear ==
  ASSUME NEW S, IsFiniteSet(S), NEW f, NEW g, NEW h,
         \A s \in S : f[s] \in Int /\ g[s] \in Int /\ h[s] \in Int /\ f[s] = g[s] + h[s]
  PROVE  SumFunctionOnSet(f, S) = SumFunctionOnSet(g, S) + SumFunctionOnSet(h, S)
<1> DEFINE B == {s \in SUBSET S : SumFunctionOnSet(f, s) #
                                    SumFunctionOnSet(g, s) + SumFunctionOnSet(h, s)}
<1>1. SUFFICES ASSUME B # {} PROVE FALSE
  OBVIOUS
<1>2. PICK T \in B : \A U \in B : U \subseteq T => U = T
  <2> HIDE DEF B
  <2>1. B \in SUBSET (SUBSET S)
    BY DEF B
  <2> QED BY <1>1, <2>1, SmallestSet
<1>3. IsFiniteSet(T) /\ T # {} /\ T \subseteq S
  <2>1. T \subseteq S /\ T # {}
    <3>1. /\ SumFunctionOnSet(f, {}) = 0 /\ SumFunctionOnSet(g, {}) = 0
          /\ SumFunctionOnSet(h, {}) = 0
      BY SumEmpty
    <3>2. {} \notin B
      BY <3>1
    <3> QED BY <3>2
  <2> HIDE DEF B
  <2> QED BY <2>1, FS_Subset
<1> DEFINE c == Pick(T)
           U == T \ {c}
<1>4. c \in T /\ U \subseteq S /\ IsFiniteSet(U)
  BY <1>3, PickIsIn, FS_Subset
<1>5. SumFunctionOnSet(f, U) = SumFunctionOnSet(g, U) + SumFunctionOnSet(h, U)
  BY <1>2, <1>4
<1>6. /\ SumFunctionOnSet(f, T) = f[c] + SumFunctionOnSet(f, U)
      /\ SumFunctionOnSet(g, T) = g[c] + SumFunctionOnSet(g, U)
      /\ SumFunctionOnSet(h, T) = h[c] + SumFunctionOnSet(h, U)
  BY <1>3, SumValue
<1>7. SumFunctionOnSet(g, U) \in Int /\ SumFunctionOnSet(h, U) \in Int
  <2> HIDE DEF B, U
  <2>1. \A s \in U : g[s] \in Int /\ h[s] \in Int
    BY <1>4
  <2> QED BY <1>4, <2>1, SumInt
<1>8. g[c] \in Int /\ h[c] \in Int /\ f[c] = g[c] + h[c]
  BY <1>3, <1>4
<1>9. SumFunctionOnSet(f, T) # SumFunctionOnSet(g, T) + SumFunctionOnSet(h, T)
  BY <1>2
<1> HIDE DEF B, c, U
<1> QED BY <1>5, <1>6, <1>7, <1>8, <1>9

\* Sums are monotone up to a factor on each side.
LEMMA SumScaled ==
  ASSUME NEW S, IsFiniteSet(S), NEW f, NEW g, NEW a \in Nat, NEW b \in Nat,
         \A s \in S : f[s] \in Int /\ g[s] \in Int /\ a * f[s] <= b * g[s]
  PROVE  a * SumFunctionOnSet(f, S) <= b * SumFunctionOnSet(g, S)
<1> DEFINE B == {s \in SUBSET S :
                   ~(a * SumFunctionOnSet(f, s) <= b * SumFunctionOnSet(g, s))}
<1>1. SUFFICES ASSUME B # {} PROVE FALSE
  OBVIOUS
<1>2. PICK T \in B : \A U \in B : U \subseteq T => U = T
  <2> HIDE DEF B
  <2>1. B \in SUBSET (SUBSET S)
    BY DEF B
  <2> QED BY <1>1, <2>1, SmallestSet
<1>3. IsFiniteSet(T) /\ T # {} /\ T \subseteq S
  <2>1. T \subseteq S /\ T # {}
    BY SumEmpty
  <2> HIDE DEF B
  <2> QED BY <2>1, FS_Subset
<1> DEFINE c == Pick(T)
           U == T \ {c}
<1>4. c \in T /\ U \subseteq S /\ IsFiniteSet(U)
  BY <1>3, PickIsIn, FS_Subset
<1>5. a * SumFunctionOnSet(f, U) <= b * SumFunctionOnSet(g, U)
  BY <1>2, <1>4
<1>6. /\ SumFunctionOnSet(f, T) = f[c] + SumFunctionOnSet(f, U)
      /\ SumFunctionOnSet(g, T) = g[c] + SumFunctionOnSet(g, U)
  BY <1>3, SumValue
<1>7. SumFunctionOnSet(f, U) \in Int /\ SumFunctionOnSet(g, U) \in Int
  <2> HIDE DEF B, U
  <2>1. \A s \in U : f[s] \in Int /\ g[s] \in Int
    BY <1>4
  <2> QED BY <1>4, <2>1, SumInt
<1>8. f[c] \in Int /\ g[c] \in Int /\ a * f[c] <= b * g[c]
  BY <1>3, <1>4
<1>9. ~(a * SumFunctionOnSet(f, T) <= b * SumFunctionOnSet(g, T))
  BY <1>2
<1> HIDE DEF B, c, U
<1>10. /\ a * (f[c] + SumFunctionOnSet(f, U)) = a * f[c] + a * SumFunctionOnSet(f, U)
       /\ b * (g[c] + SumFunctionOnSet(g, U)) = b * g[c] + b * SumFunctionOnSet(g, U)
  BY <1>7, <1>8
<1> QED BY <1>5, <1>6, <1>7, <1>8, <1>9, <1>10

\* A sum of zeros.
LEMMA SumZero ==
  ASSUME NEW S, IsFiniteSet(S), NEW f, \A s \in S : f[s] = 0
  PROVE  SumFunctionOnSet(f, S) = 0
<1>1. \A s \in S : f[s] \in Int /\ f[s] = f[s] + f[s]
  OBVIOUS
<1>2. SumFunctionOnSet(f, S) = SumFunctionOnSet(f, S) + SumFunctionOnSet(f, S)
  BY <1>1, SumLinear
<1> QED BY <1>1, <1>2, SumInt

\* Sums are monotone.
LEMMA SumWithin ==
  ASSUME NEW S, IsFiniteSet(S), NEW f, NEW g,
         \A s \in S : f[s] \in Int /\ g[s] \in Int /\ f[s] <= g[s]
  PROVE  SumFunctionOnSet(f, S) <= SumFunctionOnSet(g, S)
<1>1. 1 * SumFunctionOnSet(f, S) <= 1 * SumFunctionOnSet(g, S)
  BY SumScaled
<1> QED BY <1>1, SumInt

\* Functions that agree on the set have the same sum.
LEMMA SumAgree ==
  ASSUME NEW S, IsFiniteSet(S), NEW f, NEW g, \A s \in S : f[s] \in Int /\ f[s] = g[s]
  PROVE  SumFunctionOnSet(f, S) = SumFunctionOnSet(g, S)
<1>1. /\ SumFunctionOnSet(f, S) <= SumFunctionOnSet(g, S)
      /\ SumFunctionOnSet(g, S) <= SumFunctionOnSet(f, S)
  BY SumWithin
<1> QED BY <1>1, SumInt

\* A sum is that of a part and that of the rest.
LEMMA SumSplit ==
  ASSUME NEW S, IsFiniteSet(S), NEW f, \A s \in S : f[s] \in Int, NEW T \in SUBSET S
  PROVE  SumFunctionOnSet(f, S) = SumFunctionOnSet(f, T) + SumFunctionOnSet(f, S \ T)
<1> DEFINE sum(s) == SumFunctionOnSet(f, s)
           B == {s \in SUBSET T : sum(S) # sum(s) + sum(S \ s)}
<1>1. SUFFICES ASSUME B # {} PROVE FALSE
  <2>1. T \in SUBSET T
    OBVIOUS
  <2> QED BY <2>1
<1>2. PICK R \in B : \A U \in B : U \subseteq R => U = R
  <2> HIDE DEF B
  <2>1. B \in SUBSET (SUBSET S)
    BY DEF B
  <2> QED BY <1>1, <2>1, SmallestSet
<1>3. R \subseteq S /\ R # {} /\ R \subseteq T /\ sum(S) # sum(R) + sum(S \ R)
  <2>1. S \ {} = S /\ sum({}) = 0 /\ sum(S) \in Int
    BY SumEmpty, SumInt
  <2>2. sum(S) = sum({}) + sum(S \ {})
    BY <2>1
  <2>3. {} \notin B
    BY <2>2
  <2> QED BY <2>3
<1> DEFINE c == Pick(R)
           U == R \ {c}
<1>4. c \in R /\ U \subseteq T /\ U \subseteq S /\ U # R /\ U \subseteq R
  BY <1>3, PickIsIn
<1>5. sum(S) = sum(U) + sum(S \ U)
  BY <1>2, <1>4
<1>6. IsFiniteSet(R) /\ IsFiniteSet(U) /\ IsFiniteSet(S \ U) /\ IsFiniteSet(S \ R)
  <2> HIDE DEF B, U
  <2>1. U \in SUBSET S /\ R \in SUBSET S /\ S \ U \in SUBSET S /\ S \ R \in SUBSET S
    BY <1>3, <1>4
  <2> QED BY <2>1, FS_Subset
<1>7. sum(R) = f[c] + sum(U)
  BY <1>3, <1>6, SumValue
<1>8. sum(S \ U) = f[c] + sum(S \ R)
  <2>1. c \in S \ U /\ (S \ U) \ {c} = S \ R
    BY <1>3, <1>4
  <2> HIDE DEF B, U, c
  <2>2. sum(S \ U) = f[c] + sum((S \ U) \ {c})
    BY <1>6, <2>1, SumRemove
  <2> QED BY <2>1, <2>2
<1>9. sum(U) \in Int /\ sum(S \ R) \in Int /\ f[c] \in Int
  <2> HIDE DEF B, U, c
  <2> QED BY <1>3, <1>4, <1>6, SumInt
<1> HIDE DEF B, U, c, sum
<1> QED BY <1>3, <1>5, <1>7, <1>8, <1>9

-----------------------------------------------------------------------------
(* Products and divisors of natural numbers.                               *)

\* A positive factor can be cancelled from both sides.
LEMMA CancelFactor ==
  ASSUME NEW a \in Int, NEW b \in Int, NEW c \in Nat \ {0}
  PROVE  /\ a * c <= b * c <=> a <= b
         /\ a * c = b * c <=> a = b
         /\ a * c < b * c <=> a < b
<1>1. (b * c) - (a * c) = (b - a) * c
  OBVIOUS
<1>2. \A d \in Int : (d > 0 => d * c > 0) /\ (d < 0 => d * c < 0) /\ (d = 0 => d * c = 0)
  OBVIOUS
<1>3. (b - a) \in Int /\ (b * c) \in Int /\ (a * c) \in Int
  OBVIOUS
<1> QED BY <1>1, <1>2, <1>3

\* Quotient and remainder.
LEMMA Division ==
  ASSUME NEW p \in Nat, NEW f \in Nat \ {0}
  PROVE  /\ p \div f \in Nat /\ p % f \in 0..(f - 1)
         /\ p = (f * (p \div f)) + (p % f)
OBVIOUS

Divides(d, n) == \E q \in Nat : n = d * q

\* What divides a divisor and a remainder divides the number, and so on.
LEMMA DividesRest ==
  ASSUME NEW a \in Nat, NEW b \in Nat \ {0}, NEW d \in Nat, Divides(d, b)
  PROVE  Divides(d, a) <=> Divides(d, a % b)
<1>1. PICK q \in Nat : b = d * q
  BY DEF Divides
<1> DEFINE m == a \div b
           r == a % b
<1>2. m \in Nat /\ r \in Nat /\ a = (b * m) + r
  OBVIOUS
<1> HIDE DEF m, r
<1>3. ASSUME NEW x \in Nat, r = d * x PROVE Divides(d, a)
  <2>1. a = d * ((q * m) + x)
    BY <1>1, <1>2, <1>3
  <2>2. ((q * m) + x) \in Nat
    BY <1>2
  <2> QED BY <2>1, <2>2 DEF Divides
<1>4. ASSUME NEW x \in Nat, a = d * x PROVE Divides(d, r)
  <2>1. CASE d = 0
    <3>1. a = 0 /\ b = 0
      BY <1>1, <1>4, <2>1
    <3> QED BY <3>1
  <2>2. CASE d # 0
    <3>1. r = d * (x - (q * m))
      BY <1>1, <1>2, <1>4
    <3>2. (x - (q * m)) \in Int
      BY <1>2
    <3>3. \A y \in Int : d * y >= 0 => y >= 0
      BY <2>2
    <3>4. (x - (q * m)) \in Nat
      BY <1>2, <3>1, <3>2, <3>3
    <3> QED BY <3>1, <3>4 DEF Divides
  <2> QED BY <2>1, <2>2
<1> QED BY <1>3, <1>4 DEF Divides, r

\* Euclid's equations.
IsGcd(g) ==
  g = [p \in Nat \X Nat |-> IF p[2] = 0 THEN p[1] ELSE g[<<p[2], p[1] % p[2]>>]]

\* There is a function that satisfies them: the greatest common divisor.
LEMMA GcdExists == \E g : IsGcd(g)
<1> DEFINE Common(a, b) == {d \in Nat : Divides(d, a) /\ Divides(d, b)}
           Most(S) == CHOOSE d : d \in S /\ \A e \in S : e <= d
           g == [p \in Nat \X Nat |-> IF p = <<0, 0>> THEN 0 ELSE Most(Common(p[1], p[2]))]
<1>1. ASSUME NEW a \in Nat, a # 0 PROVE Most(Common(a, 0)) = a
  <2>1. a \in Common(a, 0)
    <3>1. a = a * 1 /\ 0 = a * 0
      OBVIOUS
    <3> QED BY <3>1 DEF Divides
  <2>2. \A d \in Common(a, 0) : d \in Nat /\ d <= a
    <3> SUFFICES ASSUME NEW d \in Nat, NEW q \in Nat, a = d * q PROVE d <= a
      BY DEF Divides
    <3>1. q >= 1
      BY <1>1
    <3>2. d * (q - 1) >= 0
      BY <3>1
    <3> QED BY <3>2
  <2> HIDE DEF Common
  <2>3. \A d : d \in Common(a, 0) /\ (\A e \in Common(a, 0) : e <= d) => d = a
    BY <2>1, <2>2
  <2>4. \E d : d \in Common(a, 0) /\ \A e \in Common(a, 0) : e <= d
    BY <2>1, <2>2
  <2> QED BY <2>3, <2>4
<1>2. ASSUME NEW a \in Nat, NEW b \in Nat \ {0}
      PROVE  a % b \in Nat /\ Common(a, b) = Common(b, a % b)
  <2>1. a % b \in Nat
    OBVIOUS
  <2>2. \A d \in Nat : Divides(d, b) => (Divides(d, a) <=> Divides(d, a % b))
    BY DividesRest
  <2> QED BY <2>1, <2>2
<1>3. ASSUME NEW a \in Nat, NEW b \in Nat
      PROVE  g[<<a, b>>] = IF b = 0 THEN a ELSE g[<<b, a % b>>]
  <2> HIDE DEF Common, Most
  <2>1. CASE b = 0
    BY <1>1, <2>1
  <2>2. CASE b # 0
    <3>1. a % b \in Nat
      BY <1>2, <2>2
    <3>2. g[<<b, a % b>>] = Most(Common(b, a % b)) /\ g[<<a, b>>] = Most(Common(a, b))
      BY <2>2, <3>1
    <3> QED BY <1>2, <2>2, <3>2
  <2> QED BY <2>1, <2>2
<1>4. g = [p \in Nat \X Nat |-> g[p]]
  OBVIOUS
<1> HIDE DEF g
<1>5. g = [p \in Nat \X Nat |-> IF p[2] = 0 THEN p[1] ELSE g[<<p[2], p[1] % p[2]>>]]
  <2>1. \A p \in Nat \X Nat : g[p] = IF p[2] = 0 THEN p[1] ELSE g[<<p[2], p[1] % p[2]>>]
    BY <1>3
  <2> QED BY <1>4, <2>1
<1> QED BY <1>5 DEF IsGcd

\* Such a function divides both of its arguments, and is 0 for zeros only.
LEMMA GcdDivides ==
  ASSUME NEW g, IsGcd(g), NEW a \in Nat, NEW b \in Nat
  PROVE  /\ g[<<a, b>>] \in Nat /\ Divides(g[<<a, b>>], a) /\ Divides(g[<<a, b>>], b)
         /\ a # 0 \/ b # 0 => g[<<a, b>>] # 0
<1> DEFINE Good(x, y) == /\ g[<<x, y>>] \in Nat /\ Divides(g[<<x, y>>], x) /\ Divides(g[<<x, y>>], y)
                         /\ x # 0 \/ y # 0 => g[<<x, y>>] # 0
           B == {y \in Nat : \E x \in Nat : ~Good(x, y)}
<1>1. SUFFICES ASSUME B # {} PROVE FALSE
  OBVIOUS
<1>2. PICK y \in B : \A z \in B : y <= z
  <2> HIDE DEF B
  <2>1. B \in SUBSET Nat
    BY DEF B
  <2> QED BY <1>1, <2>1, LeastExists
<1>3. PICK x \in Nat : ~Good(x, y)
  OBVIOUS
<1>4. g[<<x, y>>] = IF y = 0 THEN x ELSE g[<<y, x % y>>]
  <2>1. \A p \in Nat \X Nat : g[p] = IF p[2] = 0 THEN p[1] ELSE g[<<p[2], p[1] % p[2]>>]
    BY DEF IsGcd
  <2> QED BY <2>1
<1>5. y \in Nat
  OBVIOUS
<1>6. CASE y = 0
  <2>1. x = x * 1 /\ 0 = x * 0
    OBVIOUS
  <2>2. Divides(x, x) /\ Divides(x, 0)
    BY <2>1 DEF Divides
  <2> QED BY <1>3, <1>4, <1>6, <2>2
<1>7. CASE y # 0
  <2>1. x % y \in Nat /\ x % y < y
    BY <1>5, <1>7
  <2>2. Good(y, x % y)
    <3>1. (x % y) \notin B
      BY <1>2, <2>1, <1>5
    <3> QED BY <1>5, <2>1, <3>1
  <2> QED BY <1>3, <1>4, <1>5, <1>7, <2>1, <2>2, DividesRest
<1> QED BY <1>6, <1>7

\* Products of four numbers can be regrouped.
LEMMA Regroup ==
  ASSUME NEW a \in Int, NEW b \in Int, NEW c \in Int, NEW d \in Int
  PROVE  /\ (a * b) * (c * d) = (a * c) * (b * d)
         /\ (a * b) * (c * d) = (a * d) * (b * c)
OBVIOUS

\* A product of positive numbers is positive, of naturals natural.
LEMMA ProductType ==
  /\ \A a, b \in Int : a * b \in Int
  /\ \A a, b \in Nat : a * b \in Nat
  /\ \A a, b \in Nat \ {0} : a * b \in Nat \ {0}
OBVIOUS

-----------------------------------------------------------------------------
(* Sums by key and in proportion.                                          *)

\* A sum of equal numbers.
LEMMA SumConstant ==
  ASSUME NEW S, IsFiniteSet(S), NEW c \in Int, NEW f, \A s \in S : f[s] = c
  PROVE  SumFunctionOnSet(f, S) = c * Cardinality(S)
<1> DEFINE B == {s \in SUBSET S : SumFunctionOnSet(f, s) # c * Cardinality(s)}
<1>1. SUFFICES ASSUME B # {} PROVE FALSE
  OBVIOUS
<1>2. PICK T \in B : \A U \in B : U \subseteq T => U = T
  <2> HIDE DEF B
  <2>1. B \in SUBSET (SUBSET S)
    BY DEF B
  <2> QED BY <1>1, <2>1, SmallestSet
<1>3. IsFiniteSet(T) /\ T # {} /\ T \subseteq S
  <2>1. T \subseteq S /\ T # {}
    BY SumEmpty, FS_EmptySet
  <2> HIDE DEF B
  <2> QED BY <2>1, FS_Subset
<1> DEFINE x == Pick(T)
           U == T \ {x}
<1>4. x \in T /\ U \subseteq S /\ IsFiniteSet(U)
  BY <1>3, PickIsIn, FS_Subset
<1>5. SumFunctionOnSet(f, U) = c * Cardinality(U)
  BY <1>2, <1>4
<1>6. SumFunctionOnSet(f, T) = f[x] + SumFunctionOnSet(f, U)
  BY <1>3, SumValue
<1>7. Cardinality(T) = Cardinality(U) + 1 /\ Cardinality(U) \in Nat
  <2> HIDE DEF B, x
  <2>1. Cardinality(T) \in Nat /\ Cardinality(U) = Cardinality(T) - 1
    BY <1>3, <1>4, FS_RemoveElement, FS_CardinalityType
  <2> QED BY <1>4, <2>1, FS_CardinalityType
<1>8. f[x] = c /\ SumFunctionOnSet(f, T) # c * Cardinality(T)
  BY <1>2, <1>3, <1>4
<1> HIDE DEF B, x, U
<1>9. c * (Cardinality(U) + 1) = c * Cardinality(U) + c
  BY <1>7
<1> QED BY <1>5, <1>6, <1>7, <1>8, <1>9

\* The members of S with a key in P, and with the key p.
Keyed(key, S, P) == {s \in S : key[s] \in P}
WithKey(key, S, p) == {s \in S : key[s] = p}

\* There are finitely many keys.
LEMMA KeysFinite ==
  ASSUME NEW S, IsFiniteSet(S), NEW key
  PROVE  IsFiniteSet({key[s] : s \in S})
<1> DEFINE T == {key[s] : s \in S}
           f == [s \in S |-> key[s]]
<1>1. f \in [S -> T] /\ \A t \in T : \E s \in S : f[s] = t
  OBVIOUS
<1> HIDE DEF f, T
<1>2. f \in Surjection(S, T)
  BY <1>1 DEF Surjection
<1> QED BY <1>2, FS_Surjection DEF T

(***************************************************************************)
(* The sum over the members whose key is in P is the sum, over the keys,   *)
(* of the sums of the members with each key.                               *)
(***************************************************************************)
LEMMA SumGrouped ==
  ASSUME NEW S, IsFiniteSet(S), NEW f, \A s \in S : f[s] \in Int,
         NEW key, NEW P, IsFiniteSet(P), NEW h,
         \A p \in P : h[p] = SumFunctionOnSet(f, WithKey(key, S, p))
  PROVE  SumFunctionOnSet(h, P) = SumFunctionOnSet(f, Keyed(key, S, P))
<1> DEFINE Part(Q) == Keyed(key, S, Q)
           B == {Q \in SUBSET P : SumFunctionOnSet(h, Q) # SumFunctionOnSet(f, Part(Q))}
<1>1. SUFFICES ASSUME B # {} PROVE FALSE
  OBVIOUS
<1>2. PICK T \in B : \A U \in B : U \subseteq T => U = T
  <2> HIDE DEF B
  <2>1. B \in SUBSET (SUBSET P)
    BY DEF B
  <2> QED BY <1>1, <2>1, SmallestSet
<1>3. IsFiniteSet(T) /\ T # {} /\ T \subseteq P
  <2>1. T \subseteq P /\ T # {}
    <3>1. Part({}) = {}
      BY DEF Keyed
    <3>2. SumFunctionOnSet(h, {}) = 0 /\ SumFunctionOnSet(f, Part({})) = 0
      BY <3>1, SumEmpty
    <3>3. {} \notin B
      BY <3>2
    <3> QED BY <3>3
  <2> HIDE DEF B
  <2> QED BY <2>1, FS_Subset
<1> DEFINE x == Pick(T)
           U == T \ {x}
<1>4. x \in T /\ U \subseteq P /\ U \subseteq T /\ x \notin U
  BY <1>3, PickIsIn
<1>5. SumFunctionOnSet(h, U) = SumFunctionOnSet(f, Part(U))
  BY <1>2, <1>4
<1>6. SumFunctionOnSet(h, T) = h[x] + SumFunctionOnSet(h, U)
  BY <1>3, SumValue
<1>7. h[x] = SumFunctionOnSet(f, WithKey(key, S, x))
  BY <1>3, <1>4
<1>8. /\ WithKey(key, S, x) \in SUBSET Part(T)
      /\ Part(T) \ WithKey(key, S, x) = Part(U)
      /\ Part(T) \in SUBSET S
  BY <1>4 DEF Keyed, WithKey
<1>9. SumFunctionOnSet(h, T) # SumFunctionOnSet(f, Part(T))
  BY <1>2
<1> HIDE DEF B, x, U, Part
<1>10. IsFiniteSet(Part(T)) /\ \A s \in Part(T) : f[s] \in Int
  BY <1>8, FS_Subset
<1>11. SumFunctionOnSet(f, Part(T))
         = SumFunctionOnSet(f, WithKey(key, S, x))
             + SumFunctionOnSet(f, Part(T) \ WithKey(key, S, x))
  BY <1>8, <1>10, SumSplit
<1> QED BY <1>5, <1>6, <1>7, <1>8, <1>9, <1>11

\* Positive denominators have a common multiple.
LEMMA CommonMultiple ==
  ASSUME NEW S, IsFiniteSet(S), NEW d, \A s \in S : d[s] \in Nat \ {0}
  PROVE  \E D \in Nat \ {0} : \A s \in S : \E m \in Nat : D = d[s] * m
<1> DEFINE Common(D, T) == \A s \in T : \E m \in Nat : D = d[s] * m
           B == {T \in SUBSET S : ~\E D \in Nat \ {0} : Common(D, T)}
<1>1. SUFFICES ASSUME B # {} PROVE FALSE
  <2>1. S \in SUBSET S
    OBVIOUS
  <2> QED BY <2>1
<1>2. PICK T \in B : \A U \in B : U \subseteq T => U = T
  <2> HIDE DEF B
  <2>1. B \in SUBSET (SUBSET S)
    BY DEF B
  <2> QED BY <1>1, <2>1, SmallestSet
<1>3. T # {} /\ T \subseteq S
  <2>1. Common(1, {})
    OBVIOUS
  <2> HIDE DEF Common
  <2> QED BY <2>1
<1> DEFINE x == Pick(T)
           U == T \ {x}
<1>4. x \in T /\ U \subseteq S /\ U \subseteq T /\ U # T
  BY <1>3, PickIsIn
<1>5. PICK D \in Nat \ {0} : Common(D, U)
  <2> HIDE DEF Common, x
  <2> QED BY <1>2, <1>4
<1> HIDE DEF x
<1>6. d[x] \in Nat \ {0}
  BY <1>3, <1>4
<1> DEFINE E == d[x] * D
<1>7. E \in Nat \ {0}
  <2>1. \A a, b \in Nat \ {0} : a * b \in Nat \ {0}
    OBVIOUS
  <2> QED BY <1>6, <2>1
<1>8. ASSUME NEW s \in T PROVE \E m \in Nat : E = d[s] * m
  <2>1. CASE s = x
    BY <2>1
  <2>2. CASE s # x
    <3>1. PICK m \in Nat : D = d[s] * m
      BY <1>5, <2>2
    <3>2. d[s] \in Nat
      BY <1>3
    <3>3. E = d[s] * (d[x] * m) /\ d[x] * m \in Nat
      <4>1. \A a, b, c \in Nat : a * (b * c) = b * (a * c) /\ a * c \in Nat
        OBVIOUS
      <4>2. d[x] \in Nat /\ m \in Nat /\ E = d[x] * (d[s] * m)
        BY <1>6, <3>1
      <4> HIDE DEF E
      <4> QED BY <3>2, <4>1, <4>2
    <3> QED BY <3>3
  <2> QED BY <2>1, <2>2
<1>9. Common(E, T)
  BY <1>8
<1> HIDE DEF E, Common
<1> QED BY <1>2, <1>7, <1>9

\* Two products are equal.
Balance(x, a, y, b) == x * a = y * b

\* Sums of proportional numbers are proportional.
LEMMA SumProportional ==
  ASSUME NEW S, IsFiniteSet(S), NEW f, NEW g, NEW a \in Nat, NEW b \in Nat,
         \A s \in S : f[s] \in Int /\ g[s] \in Int /\ Balance(f[s], a, g[s], b)
  PROVE  Balance(SumFunctionOnSet(f, S), a, SumFunctionOnSet(g, S), b)
<1>1. \A s \in S : a * f[s] <= b * g[s] /\ b * g[s] <= a * f[s]
  <2> SUFFICES ASSUME NEW s \in S PROVE a * f[s] <= b * g[s] /\ b * g[s] <= a * f[s]
    OBVIOUS
  <2>1. f[s] \in Int /\ g[s] \in Int /\ f[s] * a = g[s] * b
    BY DEF Balance
  <2>2. \A x, y \in Int : x * a = y * b => a * x <= b * y /\ b * y <= a * x
    OBVIOUS
  <2> QED BY <2>1, <2>2
<1>2. /\ a * SumFunctionOnSet(f, S) <= b * SumFunctionOnSet(g, S)
      /\ b * SumFunctionOnSet(g, S) <= a * SumFunctionOnSet(f, S)
  BY <1>1, SumScaled
<1>3. SumFunctionOnSet(f, S) \in Int /\ SumFunctionOnSet(g, S) \in Int
  BY SumInt
<1> QED BY <1>2, <1>3 DEF Balance

\* A sum of positive numbers is positive, and not less than that of a part.
LEMMA SumPositive ==
  ASSUME NEW S, IsFiniteSet(S), NEW f, \A s \in S : f[s] \in Nat \ {0}
  PROVE  /\ SumFunctionOnSet(f, S) \in Nat
         /\ S # {} => SumFunctionOnSet(f, S) > 0
         /\ \A T \in SUBSET S : SumFunctionOnSet(f, T) \in Nat
                                /\ SumFunctionOnSet(f, T) <= SumFunctionOnSet(f, S)
<1>1. \A T \in SUBSET S : SumFunctionOnSet(f, T) \in Nat
  <2> SUFFICES ASSUME NEW T \in SUBSET S PROVE SumFunctionOnSet(f, T) \in Nat
    OBVIOUS
  <2>1. IsFiniteSet(T) /\ \A s \in T : f[s] \in Nat
    BY FS_Subset
  <2> QED BY <2>1, SumNat
<1>2. SumFunctionOnSet(f, S) \in Nat
  BY SumNat
<1>3. ASSUME NEW T \in SUBSET S PROVE SumFunctionOnSet(f, T) <= SumFunctionOnSet(f, S)
  <2>1. SumFunctionOnSet(f, S) = SumFunctionOnSet(f, T) + SumFunctionOnSet(f, S \ T)
    BY SumSplit
  <2>2. SumFunctionOnSet(f, T) \in Nat /\ SumFunctionOnSet(f, S \ T) \in Nat
    BY <1>1
  <2> QED BY <2>1, <2>2
<1>4. ASSUME NEW x \in S PROVE SumFunctionOnSet(f, S) > 0
  <2>1. SumFunctionOnSet(f, S) = f[x] + SumFunctionOnSet(f, S \ {x})
    BY SumRemove
  <2>2. SumFunctionOnSet(f, S \ {x}) \in Nat
    BY <1>1
  <2> QED BY <2>1, <2>2
<1> QED BY <1>1, <1>2, <1>3, <1>4

\* A sum of one number.
LEMMA SumOne ==
  ASSUME NEW f, NEW x, f[x] \in Int
  PROVE  SumFunctionOnSet(f, {x}) = f[x]
<1>1. IsFiniteSet({x}) /\ (\A s \in {x} : f[s] \in Int) /\ {x} \ {x} = {}
  BY FS_Singleton
<1>2. SumFunctionOnSet(f, {x}) = f[x] + SumFunctionOnSet(f, {x} \ {x})
  BY <1>1, SumRemove
<1> QED BY <1>1, <1>2, SumEmpty

-----------------------------------------------------------------------------
(***************************************************************************)
(* Sequences: what a concatenation and the two parts of a deque hold.      *)
(***************************************************************************)
LEMMA ConcatMembers ==
  ASSUME NEW T, NEW s \in Seq(T), NEW t \in Seq(T)
  PROVE  /\ s \o t \in Seq(T)
         /\ Range(s \o t) = Range(s) \cup Range(t)
         /\ IsInjective(s) /\ IsInjective(t) /\ Range(s) \cap Range(t) = {} => IsInjective(s \o t)
<1> DEFINE c == s \o t
           n == Len(s)
           m == Len(t)
<1>1. /\ c \in Seq(T) /\ n \in Nat /\ m \in Nat
      /\ DOMAIN c = 1..(n + m) /\ DOMAIN s = 1..n /\ DOMAIN t = 1..m
      /\ \A i \in 1..n : c[i] = s[i]
      /\ \A i \in 1..m : c[n + i] = t[i]
  <2>1. /\ c \in Seq(T) /\ Len(c) = n + m /\ n \in Nat /\ m \in Nat
        /\ \A i \in 1..(n + m) : c[i] = IF i <= n THEN s[i] ELSE t[i - n]
    BY ConcatProperties, LenProperties
  <2>2. DOMAIN c = 1..(n + m) /\ DOMAIN s = 1..n /\ DOMAIN t = 1..m
    BY <2>1, LenProperties
  <2> HIDE DEF c, n, m
  <2>3. \A i \in 1..n : i \in 1..(n + m) /\ i <= n
    BY <2>1
  <2>4. \A i \in 1..m : n + i \in 1..(n + m) /\ ~(n + i <= n) /\ n + i - n = i
    BY <2>1
  <2>5. \A i \in 1..n : c[i] = s[i]
    BY <2>1, <2>3
  <2>6. \A i \in 1..m : c[n + i] = t[i]
    BY <2>1, <2>4
  <2> QED BY <2>1, <2>2, <2>5, <2>6
<1> HIDE DEF c, n, m
<1>2. \A i \in 1..(n + m) : i \in 1..n \/ \E l \in 1..m : i = n + l
  <2> SUFFICES ASSUME NEW i \in 1..(n + m), i \notin 1..n PROVE \E l \in 1..m : i = n + l
    OBVIOUS
  <2>1. i - n \in 1..m /\ i = n + (i - n)
    BY <1>1
  <2> QED BY <2>1
<1>3. /\ \A i \in 1..n : i \in 1..(n + m)
      /\ \A i \in 1..m : n + i \in 1..(n + m)
  BY <1>1
<1>4. Range(c) = Range(s) \cup Range(t)
  <2>1. Range(s) \subseteq Range(c) /\ Range(t) \subseteq Range(c)
    BY <1>1, <1>3 DEF Range
  <2>2. ASSUME NEW i \in 1..(n + m) PROVE c[i] \in Range(s) \cup Range(t)
    <3>1. CASE i \in 1..n
      BY <1>1, <3>1 DEF Range
    <3>2. CASE i \notin 1..n
      <4>1. PICK l \in 1..m : i = n + l
        BY <1>2, <3>2
      <4> QED BY <1>1, <4>1 DEF Range
    <3> QED BY <3>1, <3>2
  <2> QED BY <1>1, <2>1, <2>2 DEF Range
<1>5. ASSUME IsInjective(s), IsInjective(t), Range(s) \cap Range(t) = {}
      PROVE  IsInjective(c)
  <2> SUFFICES ASSUME NEW a \in 1..(n + m), NEW b \in 1..(n + m), c[a] = c[b] PROVE a = b
    BY <1>1 DEF IsInjective
  <2>1. CASE a \in 1..n /\ b \in 1..n
    BY <1>1, <1>5, <2>1 DEF IsInjective
  <2>2. CASE a \in 1..n /\ b \notin 1..n
    <3>1. PICK l \in 1..m : b = n + l
      BY <1>2, <2>2
    <3>2. c[a] \in Range(s) /\ c[b] \in Range(t)
      BY <1>1, <2>2, <3>1 DEF Range
    <3> QED BY <1>5, <3>2
  <2>3. CASE a \notin 1..n /\ b \in 1..n
    <3>1. PICK l \in 1..m : a = n + l
      BY <1>2, <2>3
    <3>2. c[b] \in Range(s) /\ c[a] \in Range(t)
      BY <1>1, <2>3, <3>1 DEF Range
    <3> QED BY <1>5, <3>2
  <2>4. CASE a \notin 1..n /\ b \notin 1..n
    <3>1. PICK l \in 1..m : a = n + l
      BY <1>2, <2>4
    <3>2. PICK o \in 1..m : b = n + o
      BY <1>2, <2>4
    <3>3. l = o
      BY <1>1, <1>5, <3>1, <3>2 DEF IsInjective
    <3> QED BY <3>1, <3>2, <3>3
  <2> QED BY <2>1, <2>2, <2>3, <2>4
<1> QED BY <1>1, <1>4, <1>5 DEF c

\* The first n members and the others.
LEMMA SplitMembers ==
  ASSUME NEW T, NEW s \in Seq(T), NEW n \in 0..Len(s)
  PROVE  LET a == SubSeq(s, 1, n)
             b == SubSeq(s, n + 1, Len(s))
         IN  /\ a \in Seq(T) /\ b \in Seq(T)
             /\ Range(a) \cup Range(b) = Range(s)
             /\ IsInjective(s) =>
                  IsInjective(a) /\ IsInjective(b) /\ Range(a) \cap Range(b) = {}
<1> DEFINE a == SubSeq(s, 1, n)
           b == SubSeq(s, n + 1, Len(s))
           m == Len(s)
<1>1. m \in Nat /\ n \in Nat /\ n <= m /\ DOMAIN s = 1..m /\ \A i \in 1..m : s[i] \in T
  BY LenProperties
<1>2. /\ a \in Seq(T) /\ Len(a) = n
      /\ \A i \in 1..n : a[i] = s[i]
  <2>1. \A i \in 1..n : s[i] \in T /\ 1 + i - 1 = i
    BY <1>1
  <2>2. /\ a \in Seq(T) /\ Len(a) = IF 1 <= n THEN n - 1 + 1 ELSE 0
        /\ \A i \in 1..(n - 1 + 1) : a[i] = s[1 + i - 1]
    BY <1>1, <2>1, SubSeqProperties
  <2> HIDE DEF a
  <2> QED BY <1>1, <2>1, <2>2
<1>3. /\ b \in Seq(T) /\ Len(b) = m - n
      /\ \A i \in 1..(m - n) : b[i] = s[n + i]
  <2>1. \A i \in (n + 1)..m : s[i] \in T
    BY <1>1
  <2>2. /\ b \in Seq(T) /\ Len(b) = IF n + 1 <= m THEN m - (n + 1) + 1 ELSE 0
        /\ \A i \in 1..(m - (n + 1) + 1) : b[i] = s[n + 1 + i - 1]
    <3>1. n + 1 \in Int /\ m \in Int
      BY <1>1
    <3> QED BY <2>1, <3>1, SubSeqProperties
  <2> HIDE DEF b, m
  <2>3. \A i \in 1..(m - n) : n + 1 + i - 1 = n + i /\ i \in 1..(m - (n + 1) + 1)
    BY <1>1
  <2>4. (IF n + 1 <= m THEN m - (n + 1) + 1 ELSE 0) = m - n
    BY <1>1
  <2> QED BY <2>2, <2>3, <2>4
<1>4. DOMAIN a = 1..n /\ DOMAIN b = 1..(m - n)
  BY <1>2, <1>3, LenProperties
<1> HIDE DEF a, b, m
<1>5. \A i \in 1..m : i \in 1..n \/ \E l \in 1..(m - n) : i = n + l
  <2> SUFFICES ASSUME NEW i \in 1..m, i \notin 1..n PROVE \E l \in 1..(m - n) : i = n + l
    OBVIOUS
  <2>1. i - n \in 1..(m - n) /\ i = n + (i - n)
    BY <1>1
  <2> QED BY <2>1
<1>6. /\ \A i \in 1..n : i \in 1..m
      /\ \A i \in 1..(m - n) : n + i \in 1..m /\ n + i \notin 1..n
  BY <1>1
<1>7. Range(a) \cup Range(b) = Range(s)
  <2>1. Range(a) \subseteq Range(s) /\ Range(b) \subseteq Range(s)
    BY <1>1, <1>2, <1>3, <1>4, <1>6 DEF Range
  <2>2. ASSUME NEW i \in 1..m PROVE s[i] \in Range(a) \cup Range(b)
    <3>1. CASE i \in 1..n
      BY <1>2, <1>4, <3>1 DEF Range
    <3>2. CASE i \notin 1..n
      <4>1. PICK l \in 1..(m - n) : i = n + l
        BY <1>5, <3>2
      <4> QED BY <1>3, <1>4, <4>1 DEF Range
    <3> QED BY <3>1, <3>2
  <2> QED BY <1>1, <2>1, <2>2 DEF Range
<1>8. ASSUME IsInjective(s)
      PROVE  IsInjective(a) /\ IsInjective(b) /\ Range(a) \cap Range(b) = {}
  <2>1. IsInjective(a)
    BY <1>1, <1>2, <1>4, <1>6, <1>8 DEF IsInjective
  <2>2. IsInjective(b)
    <3> SUFFICES ASSUME NEW i \in 1..(m - n), NEW l \in 1..(m - n), b[i] = b[l] PROVE i = l
      BY <1>4 DEF IsInjective
    <3>1. n + i = n + l
      BY <1>1, <1>3, <1>6, <1>8 DEF IsInjective
    <3> QED BY <1>1, <3>1
  <2>3. ASSUME NEW i \in 1..n, NEW l \in 1..(m - n) PROVE a[i] # b[l]
    BY <1>1, <1>2, <1>3, <1>6, <1>8 DEF IsInjective
  <2> QED BY <1>4, <2>1, <2>2, <2>3 DEF Range
<1> QED BY <1>2, <1>3, <1>7, <1>8 DEF a, b, m

\* Elements of a sequence.
LEMMA SequenceMembers ==
  ASSUME NEW T, NEW s \in Seq(T)
  PROVE  /\ Range(s) \subseteq T
         /\ s \in Seq(Range(s))
         /\ s = <<>> <=> Range(s) = {}
         /\ Len(s) \in Nat /\ DOMAIN s = 1..Len(s)
<1>1. Len(s) \in Nat /\ DOMAIN s = 1..Len(s) /\ s \in [1..Len(s) -> T]
  BY LenProperties
<1>2. Range(s) \subseteq T
  BY <1>1 DEF Range
<1>3. s \in Seq(Range(s))
  BY SeqOfRange
<1>4. ASSUME Range(s) = {} PROVE s = <<>>
  <2>1. Len(s) = 0
    <3>1. \A i \in 1..Len(s) : s[i] \in Range(s)
      BY <1>1 DEF Range
    <3>2. ASSUME Len(s) # 0 PROVE FALSE
      <4>1. 1 \in 1..Len(s)
        BY <1>1, <3>2
      <4> QED BY <1>4, <3>1, <4>1
    <3> QED BY <3>2
  <2>2. 1..Len(s) = {}
    BY <2>1
  <2> QED BY <2>1, EmptySeq
<1>5. Range(<<>>) = {}
  BY DEF Range
<1> QED BY <1>1, <1>2, <1>3, <1>4, <1>5

-----------------------------------------------------------------------------
(* The members of a sequence that are in a set.                            *)

IsKept(g, n, seq, set) ==
  g = [i \in 0..n |-> IF i = 0 THEN <<>>
                      ELSE IF seq[i] \in set THEN Append(g[i - 1], seq[i]) ELSE g[i - 1]]

(***************************************************************************)
(* The recursive function of a filter exists: a least length without one   *)
(* is one more than a length with one.                                     *)
(***************************************************************************)
LEMMA KeptExists ==
  ASSUME NEW seq, NEW set, NEW n \in Nat
  PROVE  \E g : IsKept(g, n, seq, set)
<1> DEFINE bad == {m \in Nat : ~\E g : IsKept(g, m, seq, set)}
<1>1. SUFFICES ASSUME bad # {} PROVE FALSE
  OBVIOUS
<1>2. PICK m \in bad : \A l \in bad : m <= l
  <2>1. bad \in SUBSET Nat
    OBVIOUS
  <2> HIDE DEF bad
  <2> QED BY <1>1, <2>1, LeastExists
<1>3. m \in Nat /\ ~\E g : IsKept(g, m, seq, set)
  OBVIOUS
<1>4. m # 0
  <2> DEFINE g == [i \in 0..0 |-> <<>>]
  <2>1. \A i \in 0..0 : i = 0
    OBVIOUS
  <2>2. IsKept(g, 0, seq, set)
    BY <2>1 DEF IsKept
  <2> QED BY <1>3, <2>2
<1>5. m - 1 \in Nat /\ m - 1 \notin bad
  BY <1>2, <1>3, <1>4
<1>6. PICK g : IsKept(g, m - 1, seq, set)
  BY <1>5
<1> HIDE DEF bad
<1> DEFINE h == [i \in 0..m |->
                   IF i = m THEN IF seq[m] \in set THEN Append(g[m - 1], seq[m]) ELSE g[m - 1]
                   ELSE g[i]]
<1>7. ASSUME NEW i \in 0..m
      PROVE  h[i] = IF i = 0 THEN <<>>
                    ELSE IF seq[i] \in set THEN Append(h[i - 1], seq[i]) ELSE h[i - 1]
  <2>1. i # 0 => i - 1 \in 0..m /\ i - 1 # m
    BY <1>3
  <2>2. i # m => i \in 0..(m - 1)
    BY <1>3, <1>4
  <2>3. i # m => g[i] = IF i = 0 THEN <<>>
                        ELSE IF seq[i] \in set THEN Append(g[i - 1], seq[i]) ELSE g[i - 1]
    BY <1>6, <2>2 DEF IsKept
  <2> QED BY <1>4, <2>1, <2>3
<1>8. h = [i \in 0..m |-> h[i]]
  OBVIOUS
<1> HIDE DEF h
<1>9. IsKept(h, m, seq, set)
  BY <1>7, <1>8 DEF IsKept
<1> QED BY <1>3, <1>9

\* The filter is the last value of that function.
LEMMA KeptIsLast ==
  ASSUME NEW seq, NEW set
  PROVE  Kept(seq, set) = (CHOOSE g : IsKept(g, Len(seq), seq, set))[Len(seq)]
BY Zenon DEF Kept, IsKept

Kept1(g, i, seq, set) ==
  /\ g[i] \in Seq(Range(seq))
  /\ Range(g[i]) = {seq[j] : j \in 1..i} \cap set
  /\ IsInjective(seq) => IsInjective(g[i])

(***************************************************************************)
(* One more element.                                                       *)
(***************************************************************************)
LEMMA AppendOne ==
  ASSUME NEW T, NEW seq \in Seq(T), NEW x \in T
  PROVE  /\ Append(seq, x) \in Seq(T)
         /\ Range(Append(seq, x)) = Range(seq) \cup {x}
         /\ IsInjective(seq) /\ x \notin Range(seq) => IsInjective(Append(seq, x))
<1> DEFINE a == Append(seq, x)
           n == Len(seq)
<1>1. /\ a \in Seq(T) /\ n \in Nat /\ DOMAIN a = 1..(n + 1) /\ DOMAIN seq = 1..n
      /\ \A i \in 1..n : a[i] = seq[i]
      /\ a[n + 1] = x
  BY AppendProperties, LenProperties
<1>2. 1..(n + 1) = 1..n \cup {n + 1}
  BY <1>1
<1> HIDE DEF a, n
<1>3. Range(a) = Range(seq) \cup {x}
  BY <1>1, <1>2 DEF Range
<1>4. ASSUME IsInjective(seq), x \notin Range(seq) PROVE IsInjective(a)
  BY <1>1, <1>2, <1>4 DEF IsInjective, Range
<1> QED BY <1>1, <1>3, <1>4 DEF a

\* The filter of every prefix, by the least prefix where it would fail.
LEMMA KeptPrefix ==
  ASSUME NEW T, NEW seq \in Seq(T), NEW set, NEW g, IsKept(g, Len(seq), seq, set)
  PROVE  \A i \in 0..Len(seq) : Kept1(g, i, seq, set)
<1> DEFINE n == Len(seq)
           bad == {i \in 0..n : ~Kept1(g, i, seq, set)}
<1>1. SUFFICES ASSUME bad # {} PROVE FALSE
  OBVIOUS
<1>2. n \in Nat /\ DOMAIN seq = 1..n
  BY LenProperties
<1>3. PICK m \in bad : \A l \in bad : m <= l
  <2>1. bad \in SUBSET Nat
    BY <1>2
  <2> HIDE DEF bad
  <2> QED BY <1>1, <2>1, LeastExists
<1>4. m \in 0..n /\ ~Kept1(g, m, seq, set)
  OBVIOUS
<1>5. \A i \in 0..n : g[i] = IF i = 0 THEN <<>>
                             ELSE IF seq[i] \in set THEN Append(g[i - 1], seq[i]) ELSE g[i - 1]
  BY DEF IsKept
<1>6. m # 0
  <2>1. g[0] = <<>> /\ 1..0 = {}
    BY <1>2, <1>5
  <2>2. /\ <<>> \in Seq(Range(seq)) /\ Range(<<>>) = {} /\ IsInjective(<<>>)
    BY EmptySeq DEF Range, IsInjective
  <2>3. Kept1(g, 0, seq, set)
    BY <2>1, <2>2 DEF Kept1
  <2> QED BY <1>4, <2>3
<1>7. m - 1 \in 0..n /\ m \in 1..n
  BY <1>2, <1>4, <1>6
<1>8. Kept1(g, m - 1, seq, set)
  BY <1>2, <1>3, <1>4, <1>7
<1> HIDE DEF bad
<1>9. 1..m = 1..(m - 1) \cup {m} /\ m \notin 1..(m - 1)
  BY <1>2, <1>7
<1>10. {seq[j] : j \in 1..m} = {seq[j] : j \in 1..(m - 1)} \cup {seq[m]}
  BY <1>9
<1>11. CASE seq[m] \notin set
  <2>1. g[m] = g[m - 1]
    BY <1>4, <1>5, <1>6, <1>11
  <2> QED BY <1>4, <1>8, <1>10, <1>11, <2>1 DEF Kept1
<1>12. CASE seq[m] \in set
  <2>1. g[m] = Append(g[m - 1], seq[m])
    BY <1>4, <1>5, <1>6, <1>12
  <2>2. seq[m] \in Range(seq)
    BY <1>2, <1>7 DEF Range
  <2>3. g[m - 1] \in Seq(Range(seq)) /\ Range(g[m - 1]) = {seq[j] : j \in 1..(m - 1)} \cap set
    BY <1>8 DEF Kept1
  <2>4. IsInjective(seq) => seq[m] \notin Range(g[m - 1])
    <3>1. IsInjective(seq) => \A j \in 1..(m - 1) : seq[j] # seq[m]
      BY <1>2, <1>7 DEF IsInjective
    <3> QED BY <2>3, <3>1
  <2>5. /\ g[m] \in Seq(Range(seq))
        /\ Range(g[m]) = Range(g[m - 1]) \cup {seq[m]}
        /\ IsInjective(seq) => IsInjective(g[m])
    BY <1>8, <2>1, <2>2, <2>3, <2>4, AppendOne DEF Kept1
  <2> QED BY <1>4, <1>10, <1>12, <2>3, <2>5 DEF Kept1
<1> QED BY <1>11, <1>12

(***************************************************************************)
(* A filter returns a sequence of the members that are in the set, without *)
(* repetitions when there were none.                                       *)
(***************************************************************************)
LEMMA KeptMembers ==
  ASSUME NEW T, NEW seq \in Seq(T), NEW set
  PROVE  /\ Kept(seq, set) \in Seq(Range(seq))
         /\ Range(Kept(seq, set)) = Range(seq) \cap set
         /\ IsInjective(seq) => IsInjective(Kept(seq, set))
<1> DEFINE n == Len(seq)
           g == CHOOSE h : IsKept(h, n, seq, set)
<1>1. n \in Nat /\ n \in 0..n /\ Range(seq) = {seq[j] : j \in 1..n}
  BY LenProperties DEF Range
<1>2. IsKept(g, n, seq, set)
  BY <1>1, KeptExists
<1>3. Kept(seq, set) = g[n]
  BY KeptIsLast
<1> HIDE DEF g
<1>4. Kept1(g, n, seq, set)
  BY <1>1, <1>2, KeptPrefix
<1> QED BY <1>1, <1>3, <1>4 DEF Kept1

\* A function on 1..n is a sequence.
LEMMA FunctionIsSeq ==
  ASSUME NEW S, NEW n \in Nat, NEW s \in [1..n -> S]
  PROVE  s \in Seq(S)
OBVIOUS

\* Sequences that agree on some indices have the same part there.
LEMMA SubSeqAgree ==
  ASSUME NEW s, NEW t, NEW m \in Int, NEW n \in Int, \A i \in m..n : s[i] = t[i]
  PROVE  SubSeq(s, m, n) = SubSeq(t, m, n)
<1> DEFINE a == SubSeq(s, m, n)
           b == SubSeq(t, m, n)
           S == {s[i] : i \in m..n}
<1>1. /\ a \in Seq(S) /\ Len(a) = (IF m <= n THEN n - m + 1 ELSE 0)
      /\ \A i \in 1..(n - m + 1) : a[i] = s[m + i - 1]
  <2>1. \A i \in m..n : s[i] \in S
    OBVIOUS
  <2> HIDE DEF S
  <2> QED BY <2>1, SubSeqProperties
<1>2. /\ b \in Seq(S) /\ Len(b) = (IF m <= n THEN n - m + 1 ELSE 0)
      /\ \A i \in 1..(n - m + 1) : b[i] = t[m + i - 1]
  <2>1. \A i \in m..n : t[i] \in S
    OBVIOUS
  <2> HIDE DEF S
  <2> QED BY <2>1, SubSeqProperties
<1> HIDE DEF a, b, S
<1>3. Len(a) = Len(b)
  BY <1>1, <1>2
<1>4. \A i \in 1..Len(a) : a[i] = b[i]
  <2> SUFFICES ASSUME NEW i \in 1..Len(a) PROVE a[i] = b[i]
    OBVIOUS
  <2>1. i \in 1..(n - m + 1) /\ m + i - 1 \in m..n
    BY <1>1
  <2> QED BY <1>1, <1>2, <2>1
<1>5. a = b
  BY <1>1, <1>2, <1>3, <1>4, SeqEqual
<1> QED BY <1>5 DEF a, b

\* The members of a part of a sequence.
LEMMA SubSeqMembers ==
  ASSUME NEW S, NEW s \in Seq(S), NEW k \in 0..Len(s)
  PROVE  /\ SubSeq(s, 1, k) \in Seq(S) /\ DOMAIN SubSeq(s, 1, k) = 1..k
         /\ \A i \in 1..k : SubSeq(s, 1, k)[i] = s[i]
<1>1. \A i \in 1..k : s[i] \in S
  OBVIOUS
<1>2. /\ SubSeq(s, 1, k) \in Seq(S)
      /\ Len(SubSeq(s, 1, k)) = IF 1 <= k THEN k - 1 + 1 ELSE 0
      /\ \A i \in 1..(k - 1 + 1) : SubSeq(s, 1, k)[i] = s[1 + i - 1]
  <2>1. k \in Int /\ 1 \in Int
    OBVIOUS
  <2> QED BY <1>1, <2>1, SubSeqProperties
<1>3. k - 1 + 1 = k /\ (\A i \in 1..k : 1 + i - 1 = i) /\ (1 <= k \/ k = 0)
  OBVIOUS
<1>4. Len(SubSeq(s, 1, k)) = k
  BY <1>2, <1>3
<1> QED BY <1>2, <1>3, <1>4

\* A quotient is a whole number, and of a share of a whole no more than it.
LEMMA Quotient ==
  ASSUME NEW f \in Nat \ {0}
  PROVE  /\ \A p \in Int : p \div f \in Int
         /\ \A p \in Int, s \in Nat : 0 <= p /\ p <= s * f => p \div f \in 0..s
<1>1. ASSUME NEW p \in Int PROVE p \div f \in Int
  OBVIOUS
<1>2. ASSUME NEW p \in Int, NEW s \in Nat, 0 <= p, p <= s * f PROVE p \div f \in 0..s
  <2> DEFINE q == p \div f
  <2>1. q \in Nat /\ p % f \in Nat /\ p = (f * q) + (p % f)
    BY <1>2, Division
  <2>2. f * q = q * f /\ q * f \in Int /\ s * f \in Int
    BY <2>1
  <2> HIDE DEF q
  <2>3. q * f <= s * f
    BY <1>2, <2>1, <2>2
  <2>4. q <= s
    BY <2>1, <2>3, CancelFactor
  <2> QED BY <2>1, <2>4 DEF q
<1> QED BY <1>1, <1>2

-----------------------------------------------------------------------------
(* Ends of finite sets, and sums of functions that agree or are renamed.   *)

\* A finite set of numbers has a least and a greatest.
LEMMA EndsExist ==
  ASSUME NEW S, IsFiniteSet(S), S # {}, \A x \in S : x \in Int
  PROVE  /\ \E x \in S : \A y \in S : x >= y
         /\ \E x \in S : \A y \in S : x <= y
<1> DEFINE Ends(T) == (\E x \in T : \A y \in T : x >= y) /\ (\E x \in T : \A y \in T : x <= y)
           B == {T \in SUBSET S : T # {} /\ ~Ends(T)}
<1>1. SUFFICES ASSUME B # {} PROVE FALSE
  OBVIOUS
<1>2. PICK T \in B : \A U \in B : U \subseteq T => U = T
  <2>1. B \in SUBSET (SUBSET S)
    <3> HIDE DEF Ends
    <3> QED OBVIOUS
  <2> HIDE DEF B, Ends
  <2> QED BY <1>1, <2>1, SmallestSet
<1>3. T \in SUBSET Int /\ T # {} /\ ~Ends(T)
  OBVIOUS
<1>4. PICK x \in T : x \in Int
  BY <1>3
<1> DEFINE U == T \ {x}
<1>5. U = {} \/ Ends(U)
  <2>1. U \in SUBSET S /\ U \subseteq T /\ U # T
    OBVIOUS
  <2> HIDE DEF U, Ends
  <2> QED BY <1>2, <2>1
<1> HIDE DEF B
<1>6. CASE U = {}
  <2>1. \A y \in T : y = x
    BY <1>6
  <2> QED BY <1>3, <1>4, <2>1
<1>7. CASE Ends(U)
  <2>1. PICK a \in U : \A y \in U : a >= y
    BY <1>7
  <2>2. PICK b \in U : \A y \in U : b <= y
    BY <1>7
  <2>3. \E m \in T : \A y \in T : m >= y
    <3>1. CASE x >= a
      BY <1>3, <2>1, <3>1
    <3>2. CASE ~(x >= a)
      BY <1>3, <2>1, <3>2
    <3> QED BY <3>1, <3>2
  <2>4. \E m \in T : \A y \in T : m <= y
    <3>1. CASE x <= b
      BY <1>3, <2>2, <3>1
    <3>2. CASE ~(x <= b)
      BY <1>3, <2>2, <3>2
    <3> QED BY <3>1, <3>2
  <2> QED BY <1>3, <2>3, <2>4
<1> QED BY <1>5, <1>6, <1>7

\* Functions that agree on a finite set have the same sum, whatever they are.
LEMMA SumSame ==
  ASSUME NEW S, IsFiniteSet(S), NEW f, NEW g, \A s \in S : f[s] = g[s]
  PROVE  SumFunctionOnSet(f, S) = SumFunctionOnSet(g, S)
<1> DEFINE a == CHOOSE h : IsSum(h, f, S)
           b == CHOOSE h : IsSum(h, g, S)
<1>1. /\ IsSum(a, f, S) /\ SumFunctionOnSet(f, S) = a[S]
      /\ IsSum(b, g, S) /\ SumFunctionOnSet(g, S) = b[S]
  BY SumExists, SumIsFold
<1> HIDE DEF a, b
<1>2. IsSum(b, f, S)
  <2>1. ASSUME NEW s \in SUBSET S
        PROVE  b[s] = IF s = {} THEN 0 ELSE f[Pick(s)] + b[s \ {Pick(s)}]
    <3>1. b[s] = IF s = {} THEN 0 ELSE g[Pick(s)] + b[s \ {Pick(s)}]
      BY <1>1 DEF IsSum
    <3>2. s # {} => f[Pick(s)] = g[Pick(s)]
      BY PickIsIn
    <3> QED BY <3>1, <3>2
  <2>2. b = [s \in SUBSET S |-> b[s]]
    BY <1>1 DEF IsSum
  <2> QED BY <2>1, <2>2 DEF IsSum
<1> QED BY <1>1, <1>2, SumUnique

(***************************************************************************)
(* A sum does not depend on what its members are called.                   *)
(***************************************************************************)
LEMMA SumRenamed ==
  ASSUME NEW S, IsFiniteSet(S), NEW key, \A s, t \in S : key[s] = key[t] => s = t,
         NEW f, NEW g, \A s \in S : f[s] \in Int /\ g[key[s]] = f[s],
         NEW T, T = {key[s] : s \in S}
  PROVE  /\ IsFiniteSet(T) /\ Cardinality(T) = Cardinality(S)
         /\ SumFunctionOnSet(g, T) = SumFunctionOnSet(f, S)
<1> DEFINE h == [s \in S |-> key[s]]
           of == [p \in T |-> SumFunctionOnSet(f, WithKey(key, S, p))]
<1>1. IsFiniteSet(T) /\ Cardinality(T) = Cardinality(S)
  <2>1. h \in [S -> T] /\ (\A t \in T : \E s \in S : h[s] = t) /\ \A s, t \in S : h[s] = h[t] => s = t
    OBVIOUS
  <2> HIDE DEF h
  <2>2. h \in Injection(S, T) /\ h \in Surjection(S, T)
    BY <2>1 DEF Injection, IsInjective, Surjection
  <2> QED BY <2>2, FS_Surjection
<1>2. Keyed(key, S, T) = S
  BY DEF Keyed
<1>3. ASSUME NEW s \in S PROVE SumFunctionOnSet(f, WithKey(key, S, key[s])) = f[s]
  <2>1. WithKey(key, S, key[s]) = {s}
    BY DEF WithKey
  <2> QED BY <2>1, SumOne
<1>4. \A p \in T : of[p] \in Int /\ of[p] = g[p]
  <2>1. \A p \in T : of[p] = SumFunctionOnSet(f, WithKey(key, S, p))
    OBVIOUS
  <2>2. \A p \in T : \E s \in S : p = key[s]
    OBVIOUS
  <2> HIDE DEF of
  <2> QED BY <1>3, <2>1, <2>2
<1>5. SumFunctionOnSet(f, Keyed(key, S, T)) = SumFunctionOnSet(of, T)
  <2> QED BY <1>1, SumGrouped
<1> HIDE DEF of
<1>6. SumFunctionOnSet(of, T) = SumFunctionOnSet(g, T)
  BY <1>1, <1>4, SumAgree
<1> QED BY <1>1, <1>2, <1>5, <1>6
=============================================================================
