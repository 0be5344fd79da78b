---------------------------- MODULE OrderProofs ----------------------------
(***************************************************************************)
(* Facts about the ascending enumeration of a finite set of numbers, which *)
(* stands for the sorted sequences of the code: the CIDRs of a document    *)
(* and the positions of the rules of one direction.                        *)
(***************************************************************************)
EXTENDS CidrDocument, TLAPS, FiniteSetTheorems, WellFoundedInduction

\* s lists the elements of S, each once, in ascending order.
Enumerates(s, S) == s \in [1 .. Cardinality(S) -> S] /\ ToSet(s) = S /\ Ascends(s)

\* How many elements of S come no later than x.
Rank(S, x) == Cardinality({j \in S : j <= x})

\* A set of naturals that is not empty has a least element.
LEMMA LeastExists ==
    ASSUME NEW S, S \subseteq Nat, S # {}
    PROVE  \E k \in S : \A j \in S : k <= j
<1>1. \A x, y \in Nat : x < y => <<x, y>> \in OpToRel(<, Nat)
  BY DEF OpToRel
<1>2. PICK R : IsWellFoundedOn(R, Nat) /\ \A x, y \in Nat : x < y => <<x, y>> \in R
  BY <1>1, NatLessThanWellFounded, Zenon
<1>3. IsWellFoundedOn(R, Nat)
  BY <1>2
<1>4. \A x, y \in Nat : x < y => <<x, y>> \in R
  BY <1>2, Zenon
<1>5. \E x \in S : \A y \in S : ~(<<y, x>> \in R)
  BY <1>3, WFMin, Zenon
<1>6. \E x \in S : \A y \in S : ~(y < x)
  BY <1>4, <1>5, Zenon
<1>7. \E x \in S : \A y \in S : x <= y
  BY <1>6, SMT
<1>. QED BY <1>7, Zenon

\* The least element goes in front of an enumeration of the others.
LEMMA LeastInFront ==
    ASSUME NEW T \in SUBSET Nat, IsFiniteSet(T), NEW m \in T, \A j \in T : m <= j,
           NEW s, Enumerates(s, T \ {m})
    PROVE  \E t : Enumerates(t, T)
<1> DEFINE n == Cardinality(T)
           t == [j \in 1 .. n |-> IF j = 1 THEN m ELSE s[j - 1]]
<1>1. n \in Nat /\ Cardinality(T \ {m}) = n - 1
  BY FS_CardinalityType, FS_RemoveElement
<1>2. IsFiniteSet(T \ {m}) /\ Cardinality(T \ {m}) \in Nat
  BY FS_CardinalityType, FS_RemoveElement
<1>3. n \in Nat \ {0}
  BY <1>1, <1>2
<1> HIDE DEF n
<1>4. s \in [1 .. n - 1 -> T \ {m}] /\ ToSet(s) = T \ {m} /\ Ascends(s)
  BY <1>1 DEF Enumerates, n
<1>5. t \in [1 .. n -> T]
  BY <1>3, <1>4
<1>6. ToSet(t) = T
  <2>1. ASSUME NEW x \in T PROVE x \in ToSet(t)
    <3>1. CASE x = m
      <4>1. 1 \in DOMAIN t /\ t[1] = m
        BY <1>3
      <4>. QED BY <3>1, <4>1 DEF ToSet
    <3>2. CASE x # m
      <4>1. PICK k \in 1 .. n - 1 : s[k] = x
        BY <1>4, <3>2 DEF ToSet
      <4>2. k + 1 \in DOMAIN t /\ t[k + 1] = x
        BY <1>3, <4>1
      <4>. QED BY <4>2 DEF ToSet
    <3>. QED BY <3>1, <3>2
  <2>2. ToSet(t) \subseteq T
    BY <1>5 DEF ToSet
  <2>. QED BY <2>1, <2>2
<1>7. Ascends(t)
  <2> SUFFICES ASSUME NEW j \in 1 .. n, NEW k \in 1 .. n, j < k PROVE t[j] < t[k]
    BY <1>5 DEF Ascends
  <2>1. k - 1 \in 1 .. n - 1 /\ t[k] = s[k - 1]
    BY <1>3
  <2>2. CASE j = 1
    <3>1. s[k - 1] \in T \ {m} /\ m \in Nat /\ s[k - 1] \in Nat
      BY <1>4, <2>1
    <3>. QED BY <1>3, <2>1, <2>2, <3>1
  <2>3. CASE j # 1
    <3>1. j - 1 \in 1 .. n - 1 /\ j - 1 < k - 1 /\ t[j] = s[j - 1]
      BY <1>3, <2>3
    <3>. QED BY <1>4, <2>1, <3>1 DEF Ascends
  <2>. QED BY <2>2, <2>3
<1>. QED BY <1>5, <1>6, <1>7 DEF Enumerates, n

\* Every finite set of naturals has an ascending enumeration: a least counterexample, by its number of
\* elements, would lose its least element and still be one.
LEMMA EnumerationExists ==
    ASSUME NEW S \in SUBSET Nat, IsFiniteSet(S)
    PROVE  \E s : Enumerates(s, S)
<1> DEFINE Without(T) == T \in SUBSET Nat /\ IsFiniteSet(T) /\ ~ \E s : Enumerates(s, T)
           sizes == {n \in Nat : \E T : Without(T) /\ Cardinality(T) = n}
<1> SUFFICES ASSUME Without(S) PROVE FALSE
  OBVIOUS
<1>1. Cardinality(S) \in sizes
  BY FS_CardinalityType
<1>2. PICK n \in sizes : \A k \in sizes : n <= k
  BY <1>1, LeastExists
<1>3. PICK T : Without(T) /\ Cardinality(T) = n
  BY <1>2
<1>4. CASE T = {}
  <2> DEFINE t == [j \in 1 .. Cardinality(T) |-> j]
  <2>1. Cardinality(T) = 0
    BY <1>4, FS_EmptySet
  <2>2. t \in [1 .. Cardinality(T) -> T] /\ DOMAIN t = {}
    BY <2>1
  <2>3. Enumerates(t, T)
    BY <1>4, <2>2 DEF Enumerates, ToSet, Ascends
  <2>. QED BY <1>3, <2>3
<1>5. CASE T # {}
  <2>1. PICK m \in T : \A j \in T : m <= j
    BY <1>3, <1>5, LeastExists
  <2>2. IsFiniteSet(T \ {m}) /\ Cardinality(T \ {m}) = n - 1 /\ Cardinality(T \ {m}) \in Nat
    BY <1>3, FS_RemoveElement, FS_CardinalityType
  <2>3. n - 1 \notin sizes
    BY <1>2, <2>2
  <2>4. T \ {m} \in SUBSET Nat
    BY <1>3
  <2>5. \E s : Enumerates(s, T \ {m})
    <3> SUFFICES ASSUME ~ \E s : Enumerates(s, T \ {m}) PROVE FALSE
      OBVIOUS
    <3>1. Without(T \ {m})
      BY <2>2, <2>4
    <3>2. n - 1 \in Nat
      BY <2>2
    <3> HIDE DEF Without
    <3>. QED BY <2>2, <2>3, <3>1, <3>2
  <2>6. \E t : Enumerates(t, T)
    BY <1>3, <2>1, <2>5, LeastInFront
  <2>. QED BY <1>3, <2>6
<1>. QED BY <1>4, <1>5

\* The element at a position has as many elements up to it as the position says.
LEMMA RankOfPosition ==
    ASSUME NEW S \in SUBSET Nat, IsFiniteSet(S), NEW s, Enumerates(s, S),
           NEW m \in 1 .. Cardinality(S)
    PROVE  Rank(S, s[m]) = m
<1> DEFINE n == Cardinality(S)
           T == {j \in S : j <= s[m]}
           f == [k \in 1 .. m |-> s[k]]
<1>1. n \in Nat
  BY FS_CardinalityType
<1> HIDE DEF n
<1>2. s \in [1 .. n -> S] /\ ToSet(s) = S /\ \A j, k \in 1 .. n : j < k => s[j] < s[k]
  BY DEF Enumerates, Ascends, n
<1>3. m \in 1 .. n /\ m \in Nat
  BY <1>1 DEF n
<1>4. \A k \in 1 .. n : s[k] \in Nat
  BY <1>2
<1>5. \A k \in 1 .. n : k <= m <=> s[k] <= s[m]
  BY <1>1, <1>2, <1>3, <1>4
<1>6. f \in [1 .. m -> T]
  BY <1>1, <1>2, <1>3, <1>5
<1>7. \A j, k \in 1 .. m : f[j] = f[k] => j = k
  BY <1>1, <1>2, <1>3, <1>4
<1>8. \A x \in T : \E k \in 1 .. m : f[k] = x
  BY <1>1, <1>2, <1>3, <1>5 DEF ToSet
<1>9. f \in Bijection(1 .. m, T)
  BY <1>6, <1>7, <1>8, Zenon DEF Bijection, Injection, Surjection, IsInjective
<1>10. ExistsBijection(1 .. m, T)
  BY <1>9 DEF ExistsBijection
<1>11. IsFiniteSet(1 .. m) /\ Cardinality(1 .. m) = m
  BY <1>3, FS_Interval
<1>. QED BY <1>10, <1>11, FS_Bijection DEF Rank

LEMMA SameValues ==
    ASSUME NEW D, NEW R, NEW s \in [D -> R], NEW t \in [D -> R], \A x \in D : s[x] = t[x]
    PROVE  s = t
  OBVIOUS

\* There is one ascending enumeration at most, so that the choice of Ascending is none.
LEMMA EnumerationIsUnique ==
    ASSUME NEW S \in SUBSET Nat, IsFiniteSet(S), NEW s, Enumerates(s, S), NEW t, Enumerates(t, S)
    PROVE  s = t
<1> DEFINE D == 1 .. Cardinality(S)
<1>1. ASSUME NEW m \in D PROVE s[m] = t[m]
  <2>1. PICK k \in D : t[k] = s[m]
    BY DEF Enumerates, ToSet
  <2>2. Rank(S, s[m]) = m
    BY RankOfPosition
  <2>3. Rank(S, t[k]) = k
    BY RankOfPosition
  <2>. QED BY <2>1, <2>2, <2>3
<1>2. s \in [D -> S] /\ t \in [D -> S]
  BY DEF Enumerates
<1> HIDE DEF D
<1>. QED BY <1>1, <1>2, SameValues

\* Ascending enumerates every finite set of naturals.
LEMMA AscendingEnumerates ==
    ASSUME NEW S \in SUBSET Nat, IsFiniteSet(S)
    PROVE  Enumerates(Ascending(S), S)
  BY EnumerationExists DEF Enumerates, Ascending

\* A strictly ascending sequence is the enumeration of its elements, which are finitely many.
LEMMA StrictlyAscending ==
    ASSUME NEW n \in Nat, NEW s \in [1 .. n -> Nat], Ascends(s)
    PROVE  /\ IsFiniteSet(ToSet(s)) /\ Cardinality(ToSet(s)) = n
           /\ Ascending(ToSet(s)) = s
<1>1. s \in [1 .. n -> ToSet(s)] /\ \A x \in ToSet(s) : \E k \in 1 .. n : s[k] = x
  BY DEF ToSet
<1>2. \A j, k \in 1 .. n : s[j] = s[k] => j = k
  BY DEF Ascends
<1>3. s \in Bijection(1 .. n, ToSet(s))
  BY <1>1, <1>2, Zenon DEF Bijection, Injection, Surjection, IsInjective
<1>4. ExistsBijection(1 .. n, ToSet(s))
  BY <1>3 DEF ExistsBijection
<1>5. IsFiniteSet(1 .. n) /\ Cardinality(1 .. n) = n
  BY FS_Interval
<1>6. IsFiniteSet(ToSet(s)) /\ Cardinality(ToSet(s)) = n
  BY <1>4, <1>5, FS_Bijection
<1>7. ToSet(s) \in SUBSET Nat /\ Enumerates(s, ToSet(s))
  BY <1>1, <1>6 DEF Enumerates
<1>8. Ascending(ToSet(s)) = s
  BY <1>6, <1>7, AscendingEnumerates, EnumerationIsUnique
<1>. QED BY <1>6, <1>8
=============================================================================
