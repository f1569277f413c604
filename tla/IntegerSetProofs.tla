-------------------------- MODULE IntegerSetProofs --------------------------
(***************************************************************************)
(* Facts about finite sets of integers, on which the other proofs rest: in *)
(* such a set every rank is taken, so that it has a greatest and a least   *)
(* element; and what sorting and summing a family of integers give.        *)
(***************************************************************************)
EXTENDS Integers, FiniteSetsExt, Sorting, FiniteSetTheorems, TLAPS

\* the elements of S from d upwards
From(S, d) == { e \in S : d <= e }

\* A rank counted from the top belongs to exactly one element.
LEMMA RankOnto ==
  ASSUME NEW S, IsFiniteSet(S), S \subseteq Int, NEW k \in 1 .. Cardinality(S)
  PROVE  \E d \in S : Cardinality(From(S, d)) = k
<1> DEFINE n == Cardinality(S)
           rank == [d \in S |-> Cardinality(From(S, d))]
<1>1. n \in Nat
  BY FS_CardinalityType
<1>2. ASSUME NEW d \in S
      PROVE  IsFiniteSet(From(S, d)) /\ Cardinality(From(S, d)) \in 1 .. n
  <2>1. From(S, d) \in SUBSET S /\ d \in From(S, d)
    BY DEF From
  <2>2. /\ IsFiniteSet(From(S, d)) /\ Cardinality(From(S, d)) \in Nat
        /\ Cardinality(From(S, d)) <= n
    BY <1>1, <2>1, FS_Subset, FS_CardinalityType
  <2>3. Cardinality(From(S, d)) # 0
    BY <2>1, <2>2, FS_EmptySet
  <2> QED  BY <2>2, <2>3, <1>1
<1>3. ASSUME NEW d \in S, NEW e \in S, d < e
      PROVE  Cardinality(From(S, d)) # Cardinality(From(S, e))
  <2>1. \A x \in S : e <= x => d <= x
    BY <1>3
  <2>2. From(S, e) \in SUBSET From(S, d)
    BY <2>1 DEF From
  <2>3. d \in From(S, d) /\ d \notin From(S, e)
    BY <1>3 DEF From
  <2> QED  BY <1>2, <2>2, <2>3, FS_Subset
<1>4. rank \in Injection(S, 1 .. n)
  <2>1. rank \in [S -> 1 .. n]
    BY <1>2
  <2>2. ASSUME NEW d \in S, NEW e \in S, rank[d] = rank[e]
        PROVE  d = e
    <3>1. d < e \/ e < d \/ d = e
      OBVIOUS
    <3> QED  BY <1>3, <2>2, <3>1
  <2> QED  BY <2>1, <2>2 DEF Injection, IsInjective
<1>5. IsFiniteSet(1 .. n) /\ Cardinality(1 .. n) = n
  BY <1>1, FS_Interval
<1>6. rank \in Surjection(S, 1 .. n)
  BY <1>4, <1>5, FS_Injection
<1> QED  BY <1>6 DEF Surjection

LEMMA NonEmptyRanks ==
  ASSUME NEW S, IsFiniteSet(S), S # {}
  PROVE  Cardinality(S) \in Nat /\ 1 \in 1 .. Cardinality(S)
                                /\ Cardinality(S) \in 1 .. Cardinality(S)
BY FS_CardinalityType, FS_EmptySet

\* The element of rank one is the greatest.
LEMMA GreatestExists ==
  ASSUME NEW S, IsFiniteSet(S), S \subseteq Int, S # {}
  PROVE  \E m \in S : \A x \in S : x <= m
<1>1. PICK m \in S : Cardinality(From(S, m)) = 1
  BY RankOnto, NonEmptyRanks
<1>2. IsFiniteSet(From(S, m))
  <2>1. From(S, m) \in SUBSET S
    BY DEF From
  <2> QED  BY <2>1, FS_Subset
<1>3. From(S, m) = {m}
  <2>1. m \in From(S, m)
    BY DEF From
  <2>2. \E x : From(S, m) = {x}
    BY <1>1, <1>2, FS_Singleton
  <2> QED  BY <2>1, <2>2
<1>4. ASSUME NEW x \in S  PROVE  x <= m
  <2>1. x <= m \/ x \in From(S, m)
    BY DEF From
  <2> QED  BY <1>3, <2>1
<1> QED  BY <1>4

\* The element of the last rank is the least.
LEMMA LeastExists ==
  ASSUME NEW S, IsFiniteSet(S), S \subseteq Int, S # {}
  PROVE  \E m \in S : \A x \in S : m <= x
<1>1. PICK m \in S : Cardinality(From(S, m)) = Cardinality(S)
  BY RankOnto, NonEmptyRanks
<1>2. From(S, m) \in SUBSET S
  BY DEF From
<1>3. From(S, m) = S
  BY <1>1, <1>2, FS_Subset
<1> QED  BY <1>3 DEF From

LEMMA MaxIsGreatest ==
  ASSUME NEW S, IsFiniteSet(S), S \subseteq Int, S # {}
  PROVE  Max(S) \in S /\ \A x \in S : x <= Max(S)
<1>1. \E m \in S : \A x \in S : m >= x
  BY GreatestExists
<1> QED  BY <1>1 DEF Max

LEMMA MinIsLeast ==
  ASSUME NEW S, IsFiniteSet(S), S \subseteq Int, S # {}
  PROVE  Min(S) \in S /\ \A x \in S : Min(S) <= x
BY LeastExists DEF Min

-----------------------------------------------------------------------------
\* Sorting, by counting: how many values there are up to a given one.

LEMMA UpToFinite ==
  ASSUME NEW I, IsFiniteSet(I), NEW f \in [I -> Int], NEW x \in Int
  PROVE  /\ IsFiniteSet(UpTo(f, x)) /\ Cardinality(UpTo(f, x)) \in 0 .. Cardinality(I)
         /\ IsFiniteSet(Below(f, x)) /\ Cardinality(Below(f, x)) \in 0 .. Cardinality(I)
<1>1. UpTo(f, x) \in SUBSET I /\ Below(f, x) \in SUBSET I
  BY DEF UpTo, Below
<1> QED  BY <1>1, FS_Subset, FS_CardinalityType

LEMMA UpToGrows ==
  ASSUME NEW I, IsFiniteSet(I), NEW f \in [I -> Int], NEW x \in Int, NEW y \in Int
  PROVE  /\ x <= y => Cardinality(UpTo(f, x)) <= Cardinality(UpTo(f, y))
         /\ x < y => Cardinality(UpTo(f, x)) <= Cardinality(Below(f, y))
<1>1. CASE x <= y
  <2>1. UpTo(f, x) \in SUBSET UpTo(f, y)
    BY <1>1 DEF UpTo
  <2>2. x < y => UpTo(f, x) \in SUBSET Below(f, y)
    BY DEF UpTo, Below
  <2> QED  BY <2>1, <2>2, UpToFinite, FS_Subset
<1>2. CASE y < x
  BY <1>2
<1> QED  BY <1>1, <1>2

\* Some value has the rank k, and it is the one that is chosen.
LEMMA SortedRank ==
  ASSUME NEW I, IsFiniteSet(I), NEW f \in [I -> Int], NEW k \in 1 .. Cardinality(I)
  PROVE  /\ Sorted(f)[k] \in Range(f) /\ Sorted(f)[k] \in Int
         /\ Cardinality(Below(f, Sorted(f)[k])) < k
         /\ k <= Cardinality(UpTo(f, Sorted(f)[k]))
<1> DEFINE n == Cardinality(I)
           high == { x \in Range(f) : k <= Cardinality(UpTo(f, x)) }
<1>0. n \in Nat /\ k \in Nat /\ DOMAIN f = I
  BY FS_CardinalityType
<1>1. Range(f) \subseteq Int /\ IsFiniteSet(Range(f)) /\ Range(f) # {}
  <2>1. f \in Surjection(I, Range(f))
    BY DEF Surjection, Range
  <2>2. I # {}
    BY <1>0, FS_EmptySet
  <2> QED  BY <2>1, <2>2, FS_Surjection DEF Range
<1>2. high # {}
  <2>1. PICK top \in Range(f) : \A x \in Range(f) : x <= top
    BY <1>1, GreatestExists
  <2>2. UpTo(f, top) = I
    BY <2>1, <1>0 DEF UpTo, Range
  <2> QED  BY <2>1, <2>2, <1>0
<1>3. IsFiniteSet(high) /\ high \subseteq Int
  BY <1>1, FS_Subset
<1>4. PICK x \in high : \A y \in high : x <= y
  BY <1>2, <1>3, LeastExists
<1>5. x \in Range(f) /\ x \in Int /\ k <= Cardinality(UpTo(f, x))
  BY <1>3, <1>4
<1>6. Cardinality(Below(f, x)) < k
  <2> DEFINE lower == { y \in Range(f) : y < x }
  <2>1. CASE lower = {}
    <3>1. Below(f, x) = {}
      BY <2>1, <1>0 DEF Below, Range
    <3> QED  BY <3>1, <1>0, FS_EmptySet
  <2>2. CASE lower # {}
    <3>1. IsFiniteSet(lower) /\ lower \subseteq Int
      BY <1>1, FS_Subset
    <3>2. PICK w \in lower : \A y \in lower : y <= w
      BY <2>2, <3>1, GreatestExists
    <3>3. w \in Range(f) /\ w \in Int /\ w < x
      BY <3>1, <3>2
    <3>4. Below(f, x) = UpTo(f, w)
      <4>1. \A i \in I : f[i] < x <=> f[i] <= w
        BY <1>0, <1>5, <3>2, <3>3 DEF Range
      <4> QED  BY <4>1, <1>0 DEF Below, UpTo
    <3>5. w \notin high
      BY <1>4, <1>5, <3>3
    <3>6. Cardinality(UpTo(f, w)) \in Int
      BY <3>3, UpToFinite
    <3> QED  BY <3>3, <3>4, <3>5, <3>6, <1>0
  <2> QED  BY <2>1, <2>2
<1>7. \E y \in Range(f) : Cardinality(Below(f, y)) < k /\ k <= Cardinality(UpTo(f, y))
  BY <1>5, <1>6
<1>8. Sorted(f)[k] = CHOOSE y \in Range(f) :
                       Cardinality(Below(f, y)) < k /\ k <= Cardinality(UpTo(f, y))
  BY <1>0 DEF Sorted
<1> HIDE DEF high
<1> QED  BY <1>1, <1>7, <1>8

\* The k-th value is up to x just when k values are.
LEMMA SortedUpTo ==
  ASSUME NEW I, IsFiniteSet(I), NEW f \in [I -> Int], NEW k \in 1 .. Cardinality(I),
         NEW x \in Int
  PROVE  Sorted(f)[k] <= x <=> k <= Cardinality(UpTo(f, x))
<1> DEFINE v == Sorted(f)[k]
<1>1. v \in Int /\ Cardinality(Below(f, v)) < k /\ k <= Cardinality(UpTo(f, v))
  BY SortedRank
<1> HIDE DEF v
<1>2. /\ Cardinality(Below(f, v)) \in Int /\ Cardinality(UpTo(f, v)) \in Int
      /\ Cardinality(UpTo(f, x)) \in Int /\ k \in Int
  BY <1>1, UpToFinite, FS_CardinalityType
<1>3. v <= x => Cardinality(UpTo(f, v)) <= Cardinality(UpTo(f, x))
  BY <1>1, UpToGrows
<1>4. x < v => Cardinality(UpTo(f, x)) <= Cardinality(Below(f, v))
  BY <1>1, UpToGrows
<1>5. v <= x <=> k <= Cardinality(UpTo(f, x))
  BY <1>1, <1>2, <1>3, <1>4
<1> QED  BY <1>5 DEF v

\* The result is a sequence without descents, of the family's length.
LEMMA SortedIsSorted ==
  ASSUME NEW I, IsFiniteSet(I), NEW f \in [I -> Int]
  PROVE  /\ Cardinality(I) \in Nat
         /\ Sorted(f) \in [1 .. Cardinality(I) -> Int]
         /\ \A j, k \in 1 .. Cardinality(I) : j <= k => Sorted(f)[j] <= Sorted(f)[k]
<1>1. Cardinality(I) \in Nat /\ DOMAIN f = I
  BY FS_CardinalityType
<1>2. Sorted(f) \in [1 .. Cardinality(I) -> Int]
  <2>1. DOMAIN Sorted(f) = 1 .. Cardinality(I)
    BY <1>1 DEF Sorted
  <2>2. Sorted(f) = [k \in 1 .. Cardinality(I) |-> Sorted(f)[k]]
    BY <1>1 DEF Sorted
  <2> QED  BY <2>2, SortedRank
<1>3. ASSUME NEW j \in 1 .. Cardinality(I), NEW k \in 1 .. Cardinality(I), j <= k
      PROVE  Sorted(f)[j] <= Sorted(f)[k]
  <2>1. Sorted(f)[k] \in Int /\ k <= Cardinality(UpTo(f, Sorted(f)[k]))
    BY SortedRank
  <2>2. Cardinality(UpTo(f, Sorted(f)[k])) \in Int
    BY <2>1, UpToFinite
  <2>3. j <= Cardinality(UpTo(f, Sorted(f)[k]))
    BY <1>1, <1>3, <2>1, <2>2
  <2> QED  BY <2>1, <2>3, SortedUpTo
<1> QED  BY <1>1, <1>2, <1>3

\* Two families with as many values up to each number sort to the same.
LEMMA SortedByCounts ==
  ASSUME NEW I, IsFiniteSet(I), NEW f \in [I -> Int],
         NEW J, IsFiniteSet(J), NEW g \in [J -> Int],
         Cardinality(I) = Cardinality(J),
         \A x \in Int : Cardinality(UpTo(f, x)) = Cardinality(UpTo(g, x))
  PROVE  Sorted(f) = Sorted(g)
<1> DEFINE n == Cardinality(I)
<1>1. Sorted(f) \in [1 .. n -> Int] /\ Sorted(g) \in [1 .. n -> Int]
  BY SortedIsSorted
<1>2. ASSUME NEW k \in 1 .. n  PROVE  Sorted(f)[k] = Sorted(g)[k]
  <2>1. Sorted(f)[k] \in Int /\ Sorted(g)[k] \in Int
    BY <1>1
  <2>2. \A x \in Int : Sorted(f)[k] <= x <=> Sorted(g)[k] <= x
    BY SortedUpTo
  <2> QED  BY <2>1, <2>2
<1> HIDE DEF n
<1>3. /\ Sorted(f) = [k \in 1 .. n |-> Sorted(f)[k]]
      /\ Sorted(g) = [k \in 1 .. n |-> Sorted(g)[k]]
  BY <1>1
<1>4. [k \in 1 .. n |-> Sorted(f)[k]] = [k \in 1 .. n |-> Sorted(g)[k]]
  BY <1>2
<1> QED  BY <1>3, <1>4

\* Sorting does not depend on how the family is indexed.
LEMMA SortedReindexed ==
  ASSUME NEW I, IsFiniteSet(I), NEW f \in [I -> Int],
         NEW J, NEW g \in [J -> Int], NEW p \in Bijection(I, J),
         \A i \in I : f[i] = g[p[i]]
  PROVE  IsFiniteSet(J) /\ Cardinality(J) = Cardinality(I) /\ Sorted(f) = Sorted(g)
<1>1. IsFiniteSet(J) /\ Cardinality(J) = Cardinality(I)
  BY FS_Bijection DEF ExistsBijection
<1>2. ASSUME NEW x \in Int  PROVE  Cardinality(UpTo(f, x)) = Cardinality(UpTo(g, x))
  <2> DEFINE q == [i \in UpTo(f, x) |-> p[i]]
  <2>1. p \in [I -> J] /\ (\A i, j \in I : p[i] = p[j] => i = j)
                       /\ \A j \in J : \E i \in I : p[i] = j
    BY DEF Bijection, Injection, Surjection, IsInjective
  <2>2. q \in [UpTo(f, x) -> UpTo(g, x)]
    BY <2>1 DEF UpTo
  <2>3. \A i, j \in UpTo(f, x) : q[i] = q[j] => i = j
    BY <2>1 DEF UpTo
  <2>4. \A j \in UpTo(g, x) : \E i \in UpTo(f, x) : q[i] = j
    BY <2>1 DEF UpTo
  <2>5. q \in Bijection(UpTo(f, x), UpTo(g, x))
    BY <2>2, <2>3, <2>4 DEF Bijection, Injection, Surjection, IsInjective
  <2> QED  BY <2>5, UpToFinite, FS_Bijection DEF ExistsBijection
<1> QED  BY <1>1, <1>2, SortedByCounts

\* The values are those of the family.
LEMMA SortedRange ==
  ASSUME NEW I, IsFiniteSet(I), NEW f \in [I -> Int]
  PROVE  Range(Sorted(f)) = Range(f)
<1> DEFINE n == Cardinality(I)
<1>1. n \in Nat /\ DOMAIN f = I /\ DOMAIN Sorted(f) = 1 .. n /\ Range(f) \subseteq Int
  BY SortedIsSorted DEF Range
<1>2. Range(Sorted(f)) \subseteq Range(f)
  BY <1>1, SortedRank DEF Range
<1>3. ASSUME NEW i \in I  PROVE  f[i] \in Range(Sorted(f))
  <2> DEFINE x == f[i]
             k == Cardinality(UpTo(f, x))
  <2>1. x \in Int /\ x - 1 \in Int
    OBVIOUS
  <2>2. k \in 0 .. n /\ Cardinality(UpTo(f, x - 1)) \in 0 .. n
    BY <2>1, UpToFinite
  <2>3. UpTo(f, x - 1) \in SUBSET (UpTo(f, x) \ {i}) /\ i \in UpTo(f, x)
    BY <2>1, <1>1 DEF UpTo
  <2>4. Cardinality(UpTo(f, x - 1)) <= k - 1
    <3>1. IsFiniteSet(UpTo(f, x))
      BY <2>1, UpToFinite
    <3>2. IsFiniteSet(UpTo(f, x) \ {i}) /\ Cardinality(UpTo(f, x) \ {i}) = k - 1
      BY <3>1, <2>3, FS_RemoveElement
    <3> QED  BY <2>3, <3>2, FS_Subset
  <2>5. k \in 1 .. n
    BY <2>2, <2>4
  <2> HIDE DEF k, n
  <2>6. Sorted(f)[k] \in Int
    BY <2>5, SortedRank DEF n
  <2>7. Sorted(f)[k] <= x /\ ~(Sorted(f)[k] <= x - 1)
    <3>1. Sorted(f)[k] <= x <=> k <= Cardinality(UpTo(f, x))
      BY <2>1, <2>5, SortedUpTo DEF n
    <3>2. Sorted(f)[k] <= x - 1 <=> k <= Cardinality(UpTo(f, x - 1))
      BY <2>1, <2>5, SortedUpTo DEF n
    <3> QED  BY <3>1, <3>2, <2>2, <2>4, <2>5 DEF k
  <2>8. Sorted(f)[k] = x
    BY <2>1, <2>6, <2>7
  <2> QED  BY <2>5, <2>8, <1>1 DEF Range
<1> QED  BY <1>1, <1>2, <1>3 DEF Range

\* What is sorted stays as it is.
LEMMA SortedTwice ==
  ASSUME NEW I, IsFiniteSet(I), NEW f \in [I -> Int]
  PROVE  Sorted(Sorted(f)) = Sorted(f)
<1> DEFINE n == Cardinality(I)
           s == Sorted(f)
<1>1. n \in Nat /\ s \in [1 .. n -> Int]
  BY SortedIsSorted
<1>2. IsFiniteSet(1 .. n) /\ Cardinality(1 .. n) = n
  BY <1>1, FS_Interval
<1>3. ASSUME NEW x \in Int  PROVE  Cardinality(UpTo(s, x)) = Cardinality(UpTo(f, x))
  <2> DEFINE m == Cardinality(UpTo(f, x))
  <2>1. m \in 0 .. n
    BY UpToFinite
  <2>2. \A k \in 1 .. n : s[k] <= x <=> k <= m
    BY SortedUpTo
  <2> HIDE DEF m, s, n
  <2>3. UpTo(s, x) = 1 .. m
    BY <1>1, <2>1, <2>2 DEF UpTo
  <2> QED  BY <1>1, <2>1, <2>3, FS_Interval DEF m
<1> QED  BY <1>1, <1>2, <1>3, SortedByCounts

\* A map that keeps the order can be applied before sorting or after it.
Increasing(h, T) == \A a, b \in T : a < b => h[a] < h[b]
Composed(h, f) == [i \in DOMAIN f |-> h[f[i]]]

LEMMA SortedMapped ==
  ASSUME NEW I, IsFiniteSet(I), NEW f \in [I -> Int],
         NEW T, Range(f) \subseteq T, T \subseteq Int, NEW h \in [T -> Int],
         Increasing(h, T)
  PROVE  Sorted(Composed(h, f)) = Composed(h, Sorted(f))
<1> DEFINE n == Cardinality(I)
           g == [i \in I |-> h[f[i]]]
<1>0. \A i \in I : f[i] \in T
  BY DEF Range
<1>1. g \in [I -> Int] /\ n \in Nat /\ Sorted(g) \in [1 .. n -> Int]
  BY <1>0, SortedIsSorted
<1>2. ASSUME NEW k \in 1 .. n  PROVE  Sorted(g)[k] = h[Sorted(f)[k]]
  <2> DEFINE v == Sorted(f)[k]
  <2>1. /\ v \in T /\ v \in Int /\ Cardinality(Below(f, v)) < k
        /\ k <= Cardinality(UpTo(f, v))
    BY SortedRank
  <2> HIDE DEF v
  <2>2. h[v] \in Int /\ h[v] - 1 \in Int /\ k \in Int
    BY <2>1, <1>1
  <2>3. \A i \in I : /\ f[i] <= v <=> h[f[i]] <= h[v]
                     /\ f[i] < v <=> h[f[i]] < h[v]
    <3>1. \A a \in T : /\ a <= v <=> h[a] <= h[v]
                       /\ a < v <=> h[a] < h[v]
      <4> SUFFICES ASSUME NEW a \in T
                   PROVE  (a <= v <=> h[a] <= h[v]) /\ (a < v <=> h[a] < h[v])
        OBVIOUS
      <4>1. a \in Int /\ h[a] \in Int
        OBVIOUS
      <4>2. (a < v => h[a] < h[v]) /\ (v < a => h[v] < h[a])
        BY <2>1 DEF Increasing
      <4>3. a = v => h[a] = h[v]
        OBVIOUS
      <4> QED  BY <2>1, <2>2, <4>1, <4>2, <4>3
    <3> QED  BY <3>1, <1>0
  <2>4. UpTo(g, h[v]) = UpTo(f, v)
    <3>1. \A i \in I : g[i] <= h[v] <=> f[i] <= v
      BY <2>3
    <3> QED  BY <3>1, <1>1 DEF UpTo
  <2>5. UpTo(g, h[v] - 1) = Below(f, v)
    <3>1. \A i \in I : g[i] <= h[v] - 1 <=> f[i] < v
      BY <2>2, <2>3, <1>1
    <3> QED  BY <3>1, <1>1 DEF UpTo, Below
  <2>6. Cardinality(Below(f, v)) \in Int
    BY <2>1, UpToFinite
  <2> HIDE DEF g, n
  <2>7. Sorted(g)[k] <= h[v]
    BY <2>1, <2>2, <2>4, <1>1, SortedUpTo DEF n
  <2>8. ~(Sorted(g)[k] <= h[v] - 1)
    BY <2>1, <2>2, <2>5, <2>6, <1>1, SortedUpTo DEF n
  <2>9. Sorted(g)[k] \in Int
    BY <1>1
  <2> QED  BY <2>2, <2>7, <2>8, <2>9 DEF v
<1>3. Composed(h, f) = g
  BY DEF Composed
<1>4. Sorted(f) \in [1 .. n -> Int]
  BY SortedIsSorted
<1> QED  BY <1>1, <1>2, <1>3, <1>4 DEF Composed

\* Different values come out in strictly increasing order.
LEMMA SortedStrictly ==
  ASSUME NEW I, IsFiniteSet(I), NEW f \in [I -> Int], \A i, j \in I : f[i] = f[j] => i = j
  PROVE  \A j, k \in 1 .. Cardinality(I) : j < k => Sorted(f)[j] < Sorted(f)[k]
<1> SUFFICES ASSUME NEW j \in 1 .. Cardinality(I), NEW k \in 1 .. Cardinality(I), j < k
             PROVE  Sorted(f)[j] < Sorted(f)[k]
  OBVIOUS
<1> DEFINE x == Sorted(f)[j]
<1>1. Cardinality(I) \in Nat /\ j \in Nat /\ k \in Nat
  BY FS_CardinalityType
<1>2. x \in Int /\ x \in Range(f) /\ Cardinality(Below(f, x)) < j
  BY SortedRank
<1> HIDE DEF x
<1>3. PICK i \in I : f[i] = x
  BY <1>2 DEF Range
<1>4. UpTo(f, x) = Below(f, x) \cup {i}
  <2>1. \A m \in I : f[m] <= x <=> f[m] < x \/ m = i
    BY <1>2, <1>3
  <2> QED  BY <2>1, <1>3 DEF UpTo, Below
<1>5. /\ Cardinality(Below(f, x)) \in Nat
      /\ Cardinality(UpTo(f, x)) <= Cardinality(Below(f, x)) + 1
  <2>1. IsFiniteSet(Below(f, x)) /\ Cardinality(Below(f, x)) \in Nat
    BY <1>2, UpToFinite
  <2>2. i \notin Below(f, x)
    BY <1>2, <1>3 DEF Below
  <2>3. Cardinality(Below(f, x) \cup {i}) = Cardinality(Below(f, x)) + 1
    BY <2>1, <2>2, FS_AddElement
  <2> QED  BY <1>4, <2>1, <2>3
<1>6. Cardinality(UpTo(f, x)) \in Int
  BY <1>2, UpToFinite
<1>7. ~(Sorted(f)[k] <= x)
  BY <1>1, <1>2, <1>5, <1>6, SortedUpTo
<1>8. Sorted(f)[k] \in Int
  BY SortedRank
<1> QED  BY <1>2, <1>7, <1>8 DEF x

\* Ascending enumerates its set.
LEMMA AscendingEnumerates ==
  ASSUME NEW S, IsFiniteSet(S), S \subseteq Int
  PROVE  /\ Cardinality(S) \in Nat
         /\ Ascending(S) \in [1 .. Cardinality(S) -> Int]
         /\ Range(Ascending(S)) = S
         /\ \A j, k \in 1 .. Cardinality(S) : j < k => Ascending(S)[j] < Ascending(S)[k]
<1> DEFINE f == [x \in S |-> x]
<1>1. f \in [S -> Int] /\ Range(f) = S /\ Ascending(S) = Sorted(f)
  BY DEF Range, Ascending
<1>2. \A i, j \in S : f[i] = f[j] => i = j
  OBVIOUS
<1> HIDE DEF f
<1>3. /\ Cardinality(S) \in Nat /\ Sorted(f) \in [1 .. Cardinality(S) -> Int]
      /\ Range(Sorted(f)) = Range(f)
  BY <1>1, SortedIsSorted, SortedRange
<1>4. \A j, k \in 1 .. Cardinality(S) : j < k => Sorted(f)[j] < Sorted(f)[k]
  BY <1>1, <1>2, SortedStrictly
<1> QED  BY <1>1, <1>3, <1>4

\* A greater element comes last.
LEMMA AscendingGrows ==
  ASSUME NEW S, IsFiniteSet(S), S \subseteq Int, NEW b \in Int, \A x \in S : x < b
  PROVE  /\ Cardinality(S \cup {b}) = Cardinality(S) + 1
         /\ \A k \in 1 .. Cardinality(S) : Ascending(S \cup {b})[k] = Ascending(S)[k]
         /\ Ascending(S \cup {b})[Cardinality(S) + 1] = b
<1> DEFINE n == Cardinality(S)
           T == S \cup {b}
           f == [x \in S |-> x]
           g == [x \in T |-> x]
<1>1. /\ b \notin S /\ IsFiniteSet(T) /\ Cardinality(T) = n + 1 /\ n \in Nat
      /\ T \subseteq Int
  BY FS_AddElement, FS_CardinalityType
<1>2. f \in [S -> Int] /\ g \in [T -> Int] /\ Ascending(S) = Sorted(f) /\ Ascending(T) = Sorted(g)
  BY <1>1 DEF Ascending
<1>3. ASSUME NEW x \in Int
      PROVE  /\ x < b => UpTo(g, x) = UpTo(f, x)
             /\ b <= x => UpTo(g, x) = T /\ UpTo(f, x) = S
  <2>1. UpTo(f, x) = { y \in S : y <= x } /\ UpTo(g, x) = { y \in T : y <= x }
    BY DEF UpTo
  <2>2. \A y \in S : y \in Int /\ y < b
    OBVIOUS
  <2>3. ASSUME x < b  PROVE  { y \in T : y <= x } = { y \in S : y <= x }
    <3>1. ~(b <= x)
      BY <2>3
    <3> QED  BY <3>1
  <2>4. ASSUME b <= x  PROVE  \A y \in T : y <= x
    BY <2>2, <2>4
  <2> HIDE DEF f, g
  <2> QED  BY <2>1, <2>3, <2>4
<1> HIDE DEF n, T, f, g
<1>4. \A x \in Int : Cardinality(UpTo(f, x)) \in 0 .. n
  BY <1>2, UpToFinite DEF n
<1>5. ASSUME NEW k \in 1 .. n  PROVE  Sorted(g)[k] = Sorted(f)[k]
  <2>1. k \in 1 .. Cardinality(T) /\ k \in 1 .. Cardinality(S)
    BY <1>1 DEF n
  <2>2. Sorted(g)[k] \in Int /\ Sorted(f)[k] \in Int
    BY <1>1, <1>2, <2>1, SortedRank
  <2>3. ASSUME NEW x \in Int  PROVE  Sorted(g)[k] <= x <=> Sorted(f)[k] <= x
    <3>1. Sorted(g)[k] <= x <=> k <= Cardinality(UpTo(g, x))
      BY <1>1, <1>2, <2>1, SortedUpTo
    <3>2. Sorted(f)[k] <= x <=> k <= Cardinality(UpTo(f, x))
      BY <1>2, <2>1, SortedUpTo
    <3>3. CASE x < b
      BY <1>3, <3>1, <3>2, <3>3
    <3>4. CASE b <= x
      <4>1. k <= Cardinality(UpTo(g, x)) /\ k <= Cardinality(UpTo(f, x))
        BY <1>1, <1>3, <3>4 DEF n
      <4> QED  BY <3>1, <3>2, <4>1
    <3> QED  BY <3>3, <3>4
  <2> QED  BY <2>2, <2>3
<1>6. Sorted(g)[n + 1] = b
  <2>1. n + 1 \in 1 .. Cardinality(T)
    BY <1>1
  <2>2. Sorted(g)[n + 1] \in Int
    BY <1>1, <1>2, <2>1, SortedRank
  <2>3. ASSUME NEW x \in Int  PROVE  Sorted(g)[n + 1] <= x <=> b <= x
    <3>1. Sorted(g)[n + 1] <= x <=> n + 1 <= Cardinality(UpTo(g, x))
      BY <1>1, <1>2, <2>1, SortedUpTo
    <3>2. CASE x < b
      <4>1. Cardinality(UpTo(g, x)) \in 0 .. n
        BY <1>3, <1>4, <3>2
      <4> QED  BY <1>1, <3>1, <3>2, <4>1
    <3>3. CASE b <= x
      BY <1>1, <1>3, <3>1, <3>3
    <3> QED  BY <3>2, <3>3
  <2> QED  BY <2>2, <2>3
<1> QED  BY <1>1, <1>2, <1>5, <1>6 DEF n, T

-----------------------------------------------------------------------------
\* A sum over a family is the value that any additive function of its index
\* sets has for the whole of it.
LEMMA SumIsAdditive ==
  ASSUME NEW I, IsFiniteSet(I), NEW f \in [I -> Int], NEW total \in [SUBSET I -> Int],
         total[{}] = 0,
         \A J \in SUBSET I : \A a \in J : total[J] = f[a] + total[J \ {a}]
  PROVE  SumFunction(f) = total[I]
<1> DEFINE step(g) == [s \in SUBSET I |->
                         IF s = {} THEN 0
                         ELSE f[CHOOSE x \in s : TRUE] + g[s \ {CHOOSE x \in s : TRUE}]]
           iter == CHOOSE g : g = step(g)
<1>0. DOMAIN f = I /\ Cardinality(I) \in Nat
  BY FS_CardinalityType
<1>1. total = step(total)
  <2>1. ASSUME NEW s \in SUBSET I
        PROVE  total[s] = IF s = {} THEN 0
                          ELSE f[CHOOSE x \in s : TRUE] + total[s \ {CHOOSE x \in s : TRUE}]
    <3>1. s # {} => (CHOOSE x \in s : TRUE) \in s
      OBVIOUS
    <3> QED  BY <3>1
  <2> QED  BY <2>1
<1>2. iter = step(iter)
  <2>1. \E g : g = step(g)
    BY <1>1
  <2> HIDE DEF step
  <2> QED  BY <2>1, Zenon
<1>3. SumFunction(f) = iter[I]
  BY <1>0 DEF SumFunction, SumFunctionOnSet, FoldFunctionOnSet, MapThenFoldSet
<1> DEFINE bad == { n \in 0 .. Cardinality(I) :
                      \E J \in SUBSET I : Cardinality(J) = n /\ iter[J] # total[J] }
<1> HIDE DEF iter
<1>4. bad = {}
  <2> SUFFICES ASSUME bad # {}  PROVE  FALSE
    OBVIOUS
  <2>1. IsFiniteSet(bad) /\ bad \subseteq Int
    <3>1. IsFiniteSet(0 .. Cardinality(I))
      BY <1>0, FS_Interval
    <3>2. bad \in SUBSET (0 .. Cardinality(I))
      OBVIOUS
    <3> QED  BY <1>0, <3>1, <3>2, FS_Subset
  <2>2. PICK n \in bad : \A m \in bad : n <= m
    BY <2>1, LeastExists
  <2>3. PICK J \in SUBSET I : Cardinality(J) = n /\ iter[J] # total[J]
    OBVIOUS
  <2>4. J # {}
    BY <1>2, <2>3
  <2> DEFINE a == CHOOSE x \in J : TRUE
  <2>5. a \in J
    BY <2>4
  <2>6. iter[J] = f[a] + iter[J \ {a}]
    BY <1>2, <2>4
  <2> HIDE DEF a
  <2>7. IsFiniteSet(J) /\ Cardinality(J \ {a}) = n - 1 /\ n \in 0 .. Cardinality(I)
    BY <2>3, <2>5, FS_Subset, FS_RemoveElement
  <2>8. J \ {a} \in SUBSET I /\ IsFiniteSet(J \ {a})
    BY <2>7, FS_RemoveElement
  <2>9. n - 1 \in 0 .. Cardinality(I)
    BY <2>7, <2>8, <1>0, FS_CardinalityType
  <2>10. n - 1 \notin bad
    BY <2>2, <2>7
  <2>11. iter[J \ {a}] = total[J \ {a}]
    BY <2>7, <2>8, <2>9, <2>10
  <2> QED  BY <2>3, <2>5, <2>6, <2>11
<1>5. Cardinality(I) \in 0 .. Cardinality(I)
  BY <1>0
<1> QED  BY <1>3, <1>4, <1>5

=============================================================================
