----------------------------- MODULE NumberFacts -----------------------------
(***************************************************************************)
(* Lemmas about the greatest and the least number of a finite set, which   *)
(* the models use for versions, page tokens and the newest of their rows.  *)
(***************************************************************************)
EXTENDS Naturals, FiniteSets, FiniteSetsExt, FiniteSetTheorems, TLAPS

\* A finite set of naturals that is not empty has a greatest element.
LEMMA FiniteMax ==
  ASSUME NEW S \in SUBSET Nat, IsFiniteSet(S), S # {}
  PROVE  Max(S) \in S /\ \A y \in S : Max(S) >= y
<1> DEFINE HasMax(T) == \E x \in T : \A y \in T : x >= y
           Sizes == {n \in Nat : \E T \in SUBSET S : Cardinality(T) = n /\ T # {} /\ ~HasMax(T)}
<1>1. ASSUME Sizes # {} PROVE FALSE
  <2>1. PICK n \in Sizes : \A m \in Sizes : <<m, n>> \notin OpToRel(<, Nat)
    BY <1>1, NatLessThanWellFounded, WFMin
  <2>2. PICK T \in SUBSET S : Cardinality(T) = n /\ T # {} /\ ~HasMax(T)
    OBVIOUS
  <2>3. PICK x \in T : TRUE
    BY <2>2
  <2>4. IsFiniteSet(T) /\ T \subseteq Nat /\ n \in Nat
    BY FS_Subset
  <2>5. Cardinality(T \ {x}) = n - 1 /\ IsFiniteSet(T \ {x})
    BY <2>2, <2>3, <2>4, FS_RemoveElement
  <2>6. n - 1 \in Nat
    BY <2>5, FS_CardinalityType
  <2>7. <<n - 1, n>> \in OpToRel(<, Nat)
    BY <2>4, <2>6 DEF OpToRel
  <2>8. n - 1 \notin Sizes
    BY <2>1, <2>7
  <2>9. T \ {x} = {} \/ HasMax(T \ {x})
    BY <2>5, <2>6, <2>8
  <2>10. CASE T \ {x} = {}
    <3>1. \A y \in T : x >= y
      BY <2>3, <2>4, <2>10
    <3> QED
      BY <2>2, <2>3, <3>1
  <2>11. CASE HasMax(T \ {x})
    <3>1. PICK z \in T \ {x} : \A y \in T \ {x} : z >= y
      BY <2>11
    <3>2. x \in Nat /\ z \in Nat
      BY <2>3, <2>4
    <3>3. CASE z >= x
      BY <2>2, <3>1, <3>3
    <3>4. CASE x > z
      <4>1. \A y \in T : x >= y
        BY <2>4, <3>1, <3>2, <3>4
      <4> QED
        BY <2>2, <2>3, <4>1
    <3> QED
      BY <3>2, <3>3, <3>4
  <2> QED
    BY <2>9, <2>10, <2>11
<1>2. HasMax(S)
  <2>1. Cardinality(S) \in Nat
    BY FS_CardinalityType
  <2> QED
    BY <1>1, <2>1
<1> QED
  BY <1>2 DEF Max

\* One more than the greatest value of a counter is a number.
LEMMA NextNumber ==
  ASSUME NEW S, IsFiniteSet(S), NEW f \in [S -> Nat]
  PROVE  /\ 1 + Max({0} \cup {f[x] : x \in S}) \in Nat
         /\ S # {} => 1 + Max({f[x] : x \in S}) \in Nat
<1> DEFINE T == {f[x] : x \in S}
<1>1. f \in Surjection(S, T)
  BY DEF Surjection
<1>2. IsFiniteSet(T) /\ T \subseteq Nat
  BY <1>1, FS_Surjection
<1>3. IsFiniteSet({0} \cup T) /\ {0} \cup T \subseteq Nat
  <2>1. IsFiniteSet(T \cup {0})
    BY <1>2, FS_AddElement
  <2> QED
    BY <1>2, <2>1
<1>4. Max({0} \cup T) \in Nat
  BY <1>3, FiniteMax
<1>5. S # {} => Max(T) \in Nat
  BY <1>2, FiniteMax
<1> HIDE DEF T
<1> QED
  BY <1>4, <1>5 DEF T

\* A set of naturals that is not empty has a least element.
LEMMA MinIsLeast ==
  ASSUME NEW S \in SUBSET Nat, S # {}
  PROVE  Min(S) \in S /\ \A y \in S : Min(S) <= y
<1>1. PICK x \in S : \A y \in S : <<y, x>> \notin OpToRel(<, Nat)
  BY NatLessThanWellFounded, WFMin
<1>2. \A y \in S : ~(y < x)
  BY <1>1 DEF OpToRel
<1>3. \A y \in S : x <= y
  BY <1>2
<1> QED
  BY <1>3 DEF Min

\* The intervals of naturals and their subsets are finite.
LEMMA SubsetsOfIntervals ==
  ASSUME NEW n \in Nat, NEW S \in SUBSET (1..n)
  PROVE  IsFiniteSet(S) /\ S \subseteq Nat /\ Cardinality(S) \in Nat /\ Cardinality(S) <= n
<1>1. IsFiniteSet(1..n) /\ Cardinality(1..n) = n
  BY FS_Interval
<1>2. IsFiniteSet(S) /\ Cardinality(S) <= n
  BY <1>1, FS_Subset
<1>3. Cardinality(S) \in Nat
  BY <1>2, FS_CardinalityType
<1> QED
  BY <1>2, <1>3

\* Of some subsets of a finite set, one becomes none of the others by the loss of an element.
LEMMA SmallestSubset ==
  ASSUME NEW H, IsFiniteSet(H), NEW Some \in SUBSET (SUBSET H), Some # {}
  PROVE  \E S \in Some : \A x \in S : S \ {x} \notin Some
<1> DEFINE Sizes == {Cardinality(S) : S \in Some}
<1>1. \A S \in Some : IsFiniteSet(S) /\ Cardinality(S) \in Nat
  BY FS_Subset, FS_CardinalityType
<1>2. Sizes \in SUBSET Nat /\ Sizes # {}
  BY <1>1
<1>3. PICK S \in Some : \A T \in Some : Cardinality(S) <= Cardinality(T)
  <2> HIDE DEF Sizes
  <2>1. Min(Sizes) \in Sizes /\ \A n \in Sizes : Min(Sizes) <= n
    BY <1>2, MinIsLeast
  <2> QED
    BY <2>1 DEF Sizes
<1>4. ASSUME NEW x \in S, S \ {x} \in Some
      PROVE  FALSE
  <2>1. Cardinality(S \ {x}) = Cardinality(S) - 1
    BY <1>1, FS_RemoveElement
  <2> QED
    BY <1>1, <1>3, <1>4, <2>1
<1> QED
  BY <1>4

\* The rank of an element is the number of those before it: in a finite set that is ordered, every
\* rank below the size belongs to one element, and ranks are in the order of the elements.
Rank(S, R, x) == Cardinality({y \in S : <<y, x>> \in R})

Orders(R, S) ==
  /\ \A x \in S : <<x, x>> \notin R
  /\ \A x, y \in S : x = y \/ <<x, y>> \in R \/ <<y, x>> \in R
  /\ \A x, y, z \in S : <<x, y>> \in R /\ <<y, z>> \in R => <<x, z>> \in R

\* The rank of an element is below the size of the set, and ranks ascend with the order.
LEMMA RanksAscend ==
  ASSUME NEW S, IsFiniteSet(S), NEW R, Orders(R, S)
  PROVE  /\ \A x \in S : Rank(S, R, x) \in 0..(Cardinality(S) - 1)
         /\ \A x, y \in S : <<x, y>> \in R => Rank(S, R, x) < Rank(S, R, y)
<1> DEFINE Below(x) == {y \in S : <<y, x>> \in R}
<1>1. \A x : IsFiniteSet(Below(x)) /\ Cardinality(Below(x)) \in Nat
  BY FS_Subset, FS_CardinalityType
<1>2. Cardinality(S) \in Nat
  BY FS_CardinalityType
<1>3. ASSUME NEW x \in S
      PROVE  Rank(S, R, x) \in 0..(Cardinality(S) - 1)
  <2>1. x \notin Below(x) /\ Below(x) \subseteq S
    BY DEF Orders
  <2>2. Below(x) # S
    BY <2>1
  <2>3. Rank(S, R, x) = Cardinality(Below(x)) /\ Cardinality(Below(x)) \in Nat
    BY <1>1 DEF Rank
  <2>4. Cardinality(Below(x)) < Cardinality(S)
    <3> HIDE DEF Below
    <3> QED
      BY <1>2, <2>1, <2>2, <2>3, FS_Subset
  <2> HIDE DEF Below
  <2> QED
    BY <1>2, <2>3, <2>4
<1>4. ASSUME NEW x \in S, NEW y \in S, <<x, y>> \in R
      PROVE  Rank(S, R, x) < Rank(S, R, y)
  <2>1. Below(x) \subseteq Below(y) /\ x \in Below(y) /\ x \notin Below(x)
    BY <1>4 DEF Orders
  <2>2. Cardinality(Below(x)) < Cardinality(Below(y))
    <3> HIDE DEF Below
    <3>1. Below(x) # Below(y)
      BY <2>1
    <3> QED
      BY <1>1, <2>1, <3>1, FS_Subset
  <2> QED
    BY <2>2 DEF Rank
<1> QED
  BY <1>3, <1>4

\* Every rank below the size of the set is somebody's.
LEMMA RanksAreContiguous ==
  ASSUME NEW S, IsFiniteSet(S), NEW R, Orders(R, S)
  PROVE  \A k \in 0..(Cardinality(S) - 1) : \E x \in S : Rank(S, R, x) = k
<1> DEFINE n == Cardinality(S)
           rank == [x \in S |-> Rank(S, R, x) + 1]
<1>1. n \in Nat
  BY FS_CardinalityType
<1>2. /\ \A x \in S : Rank(S, R, x) \in 0..(n - 1)
      /\ \A x, y \in S : <<x, y>> \in R => Rank(S, R, x) < Rank(S, R, y)
  BY RanksAscend
<1>3. \A x \in S : Rank(S, R, x) + 1 \in 1..n
  BY <1>1, <1>2
<1>4. \A x, y \in S : Rank(S, R, x) + 1 = Rank(S, R, y) + 1 => x = y
  <2>1. ASSUME NEW x \in S, NEW y \in S, Rank(S, R, x) + 1 = Rank(S, R, y) + 1
        PROVE  x = y
    <3>1. x = y \/ <<x, y>> \in R \/ <<y, x>> \in R
      BY DEF Orders
    <3>2. Rank(S, R, x) \in Int /\ Rank(S, R, y) \in Int
      BY <1>1, <1>2
    <3>3. Rank(S, R, x) = Rank(S, R, y)
      BY <2>1, <3>2
    <3>4. ~(Rank(S, R, x) < Rank(S, R, y)) /\ ~(Rank(S, R, y) < Rank(S, R, x))
      BY <3>2, <3>3
    <3> QED
      BY <1>2, <3>1, <3>4
  <2> QED
    BY <2>1
<1>5. rank \in Injection(S, 1..n)
  BY <1>3, <1>4 DEF Injection, IsInjective
<1>6. IsFiniteSet(1..n) /\ Cardinality(1..n) = n
  BY <1>1, FS_Interval
<1> HIDE DEF rank, n
<1>7. rank \in Surjection(S, 1..n)
  BY <1>5, <1>6, FS_Injection DEF n
<1>8. ASSUME NEW k \in 0..(n - 1)
      PROVE  \E x \in S : Rank(S, R, x) = k
  <2>1. k + 1 \in 1..n
    BY <1>1
  <2>2. PICK x \in S : rank[x] = k + 1
    BY <1>7, <2>1 DEF Surjection
  <2>3. Rank(S, R, x) + 1 = k + 1 /\ Rank(S, R, x) \in Nat
    BY <1>1, <1>2, <2>2 DEF rank
  <2> QED
    BY <2>3
<1> QED
  BY <1>8 DEF n

\* A finite set that is ordered has a last element.
LEMMA OneIsLast ==
  ASSUME NEW S, IsFiniteSet(S), S # {}, NEW R, Orders(R, S)
  PROVE  \E x \in S : \A y \in S : y = x \/ <<y, x>> \in R
<1> DEFINE n == Cardinality(S)
<1>1. n \in Nat /\ n # 0
  BY FS_CardinalityType, FS_EmptySet
<1>2. PICK x \in S : Rank(S, R, x) = n - 1
  BY <1>1, RanksAreContiguous
<1>3. ASSUME NEW y \in S
      PROVE  y = x \/ <<y, x>> \in R
  <2>1. Rank(S, R, y) \in 0..(n - 1) /\ (<<x, y>> \in R => Rank(S, R, x) < Rank(S, R, y))
    BY RanksAscend
  <2>2. <<x, y>> \notin R
    BY <1>1, <1>2, <2>1
  <2> QED
    BY <2>2 DEF Orders
<1> QED
  BY <1>3

=============================================================================
