---------------------------- MODULE DataPathProofs ----------------------------
(***************************************************************************)
(* Proofs about DataPath, for any oracles, ledgers, prices, last reports   *)
(* and draws. What sorting and shuffling compute is proved by induction:   *)
(* of the numbers for which a statement fails, none would be the smallest. *)
(***************************************************************************)
EXTENDS DataPath, FiniteSetTheorems, WellFoundedInduction, TLAPS

(***************************************************************************)
(* Sets of numbers                                                         *)
(***************************************************************************)

\* A set of numbers has a smallest one.
LEMMA SmallestNumber ==
  ASSUME NEW T \in SUBSET Nat, T # {}
  PROVE  \E n \in T : \A m \in T : n <= m
<1>1. PICK n \in T : \A m \in T : ~(<<m, n>> \in OpToRel(<, Nat))
  BY NatLessThanWellFounded, WFMin
<1>2. \A m \in T : ~(m < n)
  BY <1>1 DEF OpToRel
<1> QED
  BY <1>2

\* Finitely many numbers have a bound.
LEMMA FiniteIsBounded ==
  ASSUME NEW S \in SUBSET Nat, IsFiniteSet(S)
  PROVE  \E b \in Nat : \A x \in S : x <= b
<1>1. PICK n \in Nat : ExistsBijection(1..n, S)
  BY FS_CardinalityType
<1>2. PICK f \in [1..n -> S] : \A x \in S : \E k \in 1..n : f[k] = x
  BY <1>1 DEF ExistsBijection, Bijection, Surjection, Injection
<1>3. \A k \in 1..n : f[k] \in Nat
  BY <1>2
<1> DEFINE Bounded(m) == \E b \in Nat : \A k \in 1..m : f[k] <= b
           Bad == {m \in Nat : m <= n /\ ~Bounded(m)}
<1>4. ASSUME Bad # {} PROVE FALSE
  <2>1. Bad \in SUBSET Nat
    OBVIOUS
  <2>2. \E m \in Bad : \A l \in Bad : m <= l
    <3> HIDE DEF Bad
    <3> QED
      BY <1>4, <2>1, SmallestNumber
  <2>3. PICK m : m \in Bad /\ \A l \in Bad : m <= l
    BY <2>2
  <2>4. m \in Nat /\ m <= n /\ ~Bounded(m)
    BY <2>3
  <2>5. m # 0
    BY <2>4
  <2>6. m - 1 \in Nat /\ m - 1 <= n /\ m \in 1..n /\ ~(m <= m - 1)
    BY <1>1, <2>4, <2>5
  <2>7. m - 1 \notin Bad
    BY <2>3, <2>6
  <2>8. PICK b \in Nat : \A k \in 1..(m - 1) : f[k] <= b
    BY <2>6, <2>7
  <2>9. PICK c \in Nat : b <= c /\ f[m] <= c
    <3>1. \A x, y \in Nat : \E z \in Nat : x <= z /\ y <= z
      OBVIOUS
    <3>2. f[m] \in Nat
      BY <1>3, <2>6
    <3> QED
      BY <2>8, <3>1, <3>2
  <2>10. \A k \in 1..m : f[k] <= c
    <3> SUFFICES ASSUME NEW k \in 1..m PROVE f[k] <= c
      OBVIOUS
    <3>1. k \in 1..n
      BY <1>1, <2>4
    <3>2. f[k] \in Nat
      BY <1>3, <3>1
    <3>3. CASE k = m
      BY <2>9, <3>3
    <3>4. CASE k # m
      <4>1. k \in 1..(m - 1)
        BY <2>4, <3>4
      <4>2. f[k] <= b
        BY <2>8, <4>1
      <4> QED
        BY <2>8, <2>9, <3>2, <4>2
    <3> QED
      BY <3>3, <3>4
  <2> QED
    BY <2>4, <2>10
<1>5. n \notin Bad
  BY <1>4
<1>6. Bounded(n)
  BY <1>1, <1>5
<1> QED
  BY <1>2, <1>6

\* Finitely many numbers, at least one, have a greatest.
LEMMA GreatestNumber ==
  ASSUME NEW S \in SUBSET Nat, IsFiniteSet(S), S # {}
  PROVE  \E x \in S : \A y \in S : y <= x
<1> DEFINE Bounds == {b \in Nat : \A x \in S : x <= b}
<1>1. Bounds # {}
  BY FiniteIsBounded
<1>2. PICK b \in Bounds : \A c \in Bounds : b <= c
  BY <1>1, SmallestNumber
<1>3. b \in S
  <2> SUFFICES ASSUME b \notin S PROVE FALSE
    OBVIOUS
  <2>1. \A x \in S : x <= b - 1
    BY <1>2
  <2>2. PICK x \in S : x <= b - 1
    BY <2>1
  <2>3. b - 1 \in Nat
    BY <1>2, <2>2
  <2> QED
    BY <1>2, <2>1, <2>3
<1> QED
  BY <1>2, <1>3

\* Min and Max of finitely many numbers.
LEMMA MinAndMax ==
  ASSUME NEW S \in SUBSET Nat, IsFiniteSet(S), S # {}
  PROVE  /\ Min(S) \in S /\ \A x \in S : Min(S) <= x
         /\ Max(S) \in S /\ \A x \in S : Max(S) >= x
<1>1. \E n \in S : \A m \in S : n =< m
  BY SmallestNumber
<1>2. \E n \in S : \A m \in S : n >= m
  BY GreatestNumber
<1>3. Min(S) \in S /\ \A x \in S : Min(S) =< x
  BY <1>1, Zenon DEF Min
<1>4. Max(S) \in S /\ \A x \in S : Max(S) >= x
  BY <1>2, Zenon DEF Max
<1> QED
  BY <1>3, <1>4

(***************************************************************************)
(* Sorting, and the median                                                 *)
(***************************************************************************)

\* Where f is below v, and where it is not above it.
Below(f, v) == {j \in DOMAIN f : f[j] < v}

UpTo(f, v) == {j \in DOMAIN f : f[j] <= v}

\* The values of a finite function are finitely many.
LEMMA RangeIsFinite ==
  ASSUME NEW D, IsFiniteSet(D), NEW V, NEW f \in [D -> V]
  PROVE  IsFiniteSet(Range(f)) /\ Range(f) \subseteq V
<1>1. Range(f) = {f[j] : j \in D}
  BY DEF Range
<1>2. f \in Surjection(D, Range(f))
  BY <1>1 DEF Surjection
<1> QED
  BY <1>1, <1>2, FS_Surjection

\* Every place of a sorted list has a value.
LEMMA PlaceHasValue ==
  ASSUME NEW D, IsFiniteSet(D), NEW f \in [D -> Nat], NEW k \in 1..Cardinality(D)
  PROVE  \E v \in Range(f) : Cardinality(Below(f, v)) < k /\ Cardinality(UpTo(f, v)) >= k
<1> DEFINE R == Range(f)
           T == {v \in R : Cardinality(UpTo(f, v)) >= k}
<1>0. DOMAIN f = D /\ Cardinality(D) \in Nat
  BY FS_CardinalityType
<1>1. IsFiniteSet(R) /\ R \subseteq Nat
  BY RangeIsFinite
<1>2. \A j \in D : f[j] \in R
  BY DEF Range
<1>3. T # {}
  <2>1. D # {}
    BY <1>0, FS_EmptySet
  <2>2. PICK x \in R : \A y \in R : y <= x
    BY <1>1, <1>2, <2>1, GreatestNumber
  <2>3. UpTo(f, x) = D
    BY <1>0, <1>2, <2>2 DEF UpTo
  <2> QED
    BY <1>0, <2>2, <2>3
<1>4. PICK v \in T : \A w \in T : v <= w
  BY <1>1, <1>3, SmallestNumber
<1>5. Cardinality(Below(f, v)) \in Nat
  BY <1>0, FS_Subset, FS_CardinalityType DEF Below
<1>6. Cardinality(Below(f, v)) < k
  <2> SUFFICES ASSUME Cardinality(Below(f, v)) >= k PROVE FALSE
    BY <1>5
  <2> DEFINE S == {w \in R : w < v}
  <2>1. Below(f, v) # {}
    BY FS_EmptySet
  <2>2. S # {}
    BY <1>0, <1>2, <2>1 DEF Below
  <2>3. IsFiniteSet(S)
    BY <1>1, FS_Subset
  <2>4. PICK w \in S : \A y \in S : y <= w
    BY <1>1, <2>2, <2>3, GreatestNumber
  <2>5. UpTo(f, w) = Below(f, v)
    <3>1. ASSUME NEW j \in D, f[j] <= w PROVE f[j] < v
      BY <1>1, <1>2, <1>4, <2>4, <3>1
    <3>2. ASSUME NEW j \in D, f[j] < v PROVE f[j] <= w
      BY <1>2, <2>4, <3>2
    <3> QED
      BY <1>0, <3>1, <3>2 DEF UpTo, Below
  <2>6. w \in T
    BY <2>4, <2>5
  <2> QED
    BY <1>1, <1>4, <2>4, <2>6
<1> QED
  BY <1>4, <1>6

\* What Sorted yields.
LEMMA SortedFacts ==
  ASSUME NEW D, IsFiniteSet(D), NEW f \in [D -> Nat], NEW k \in 1..Cardinality(D)
  PROVE  /\ Sorted(f)[k] \in Range(f)
         /\ Cardinality(Below(f, Sorted(f)[k])) < k
         /\ Cardinality(UpTo(f, Sorted(f)[k])) >= k
<1>1. DOMAIN f = D
  OBVIOUS
<1>2. \E v \in Range(f) : /\ Cardinality({j \in DOMAIN f : f[j] < v}) < k
                          /\ Cardinality({j \in DOMAIN f : f[j] <= v}) >= k
  BY PlaceHasValue DEF Below, UpTo
<1> DEFINE v == CHOOSE v \in Range(f) : /\ Cardinality({j \in DOMAIN f : f[j] < v}) < k
                                        /\ Cardinality({j \in DOMAIN f : f[j] <= v}) >= k
<1>3. v \in Range(f) /\ Cardinality({j \in DOMAIN f : f[j] < v}) < k
        /\ Cardinality({j \in DOMAIN f : f[j] <= v}) >= k
  BY <1>2, Zenon
<1>4. Sorted(f)[k] = v
  BY <1>1, Zenon DEF Sorted
<1> HIDE DEF v
<1> QED
  BY <1>3, <1>4 DEF Below, UpTo

\* The places of the median in a list that is not empty.
LEMMA MiddleFacts ==
  ASSUME NEW n \in Nat, n # 0
  PROVE  /\ n \div 2 \in Nat
         /\ n % 2 = 1 => n = 2 * (n \div 2) + 1 /\ n \div 2 + 1 \in 1..n
         /\ n % 2 # 1 => n = 2 * (n \div 2) /\ n \div 2 \in 1..n /\ n \div 2 + 1 \in 1..n
OBVIOUS

\* The sum of two numbers lies between twice the one and twice the other.
LEMMA SumLiesBetween ==
  ASSUME NEW a \in Nat, NEW b \in Nat
  PROVE  \E low, high \in {a, b} : 2 * low <= a + b /\ a + b <= 2 * high
<1>1. CASE a <= b
  BY <1>1
<1>2. CASE ~(a <= b)
  <2>1. 2 * b <= a + b /\ a + b <= 2 * a
    BY <1>2
  <2> QED
    BY <2>1
<1> QED
  BY <1>1, <1>2

\* The median lies between two of the values, unless it is not a number, which
\* it is only if a value is none.
LEMMA MedianLiesBetween ==
  ASSUME NEW D, IsFiniteSet(D), D # {}, NEW f \in [D -> Nat \cup {NaN}], NEW m \in Medians(f)
  PROVE  \/ m = NaN /\ NaN \in Range(f)
         \/ m \in Nat /\ \E low, high \in Range(f) \cap Nat : 2 * low <= m /\ m <= 2 * high
<1> DEFINE n == Cardinality(D)
           R == Range(f)
           mid == n \div 2
<1>1. n \in Nat /\ n # 0
  BY FS_CardinalityType, FS_EmptySet
<1>2. DOMAIN f = D
  OBVIOUS
<1>3. R \subseteq Nat \cup {NaN} /\ \A j \in D : f[j] \in R
  BY RangeIsFinite DEF Range
<1>4. ASSUME NEW a \in R \cap Nat, NEW b \in R \cap Nat, m = a + b
      PROVE  m \in Nat /\ \E low, high \in R \cap Nat : 2 * low <= m /\ m <= 2 * high
  <2>1. \E low, high \in {a, b} : 2 * low <= a + b /\ a + b <= 2 * high
    BY SumLiesBetween
  <2> QED
    BY <1>4, <2>1
<1>5. CASE NaN \notin R
  <2>1. f \in [D -> Nat]
    BY <1>3, <1>5
  <2>2. \A k \in 1..n : Sorted(f)[k] \in R \cap Nat
    BY <1>3, <1>5, <2>1, SortedFacts
  <2>3. CASE n % 2 = 1
    <3>1. m = 2 * Sorted(f)[mid + 1]
      BY <1>2, <1>5, <2>3 DEF Medians
    <3>2. Sorted(f)[mid + 1] \in R \cap Nat
      BY <1>1, <2>2, <2>3, MiddleFacts
    <3>3. m = Sorted(f)[mid + 1] + Sorted(f)[mid + 1]
      BY <3>1, <3>2
    <3> QED
      BY <1>4, <3>2, <3>3
  <2>4. CASE n % 2 # 1
    <3>1. m = Sorted(f)[mid] + Sorted(f)[mid + 1]
      BY <1>2, <1>5, <2>4 DEF Medians
    <3>2. Sorted(f)[mid] \in R \cap Nat /\ Sorted(f)[mid + 1] \in R \cap Nat
      BY <1>1, <2>2, <2>4, MiddleFacts
    <3> QED
      BY <1>4, <3>1, <3>2
  <2> QED
    BY <2>3, <2>4
<1>6. CASE NaN \in R
  <2>1. PICK a \in R, b \in R : m = Twice(a, b)
    <3>1. CASE n % 2 = 1
      <4>1. m \in {Twice(a, a) : a \in R}
        BY <1>2, <1>6, <3>1 DEF Medians
      <4> QED
        BY <4>1
    <3>2. CASE n % 2 # 1
      <4>1. m \in {Twice(f[p[1]], f[p[2]]) : p \in {q \in D \X D : q[1] # q[2]}}
        BY <1>2, <1>6, <3>2 DEF Medians
      <4>2. PICK p \in D \X D : m = Twice(f[p[1]], f[p[2]])
        BY <4>1
      <4> QED
        BY <1>3, <4>2
    <3> QED
      BY <3>1, <3>2
  <2>2. CASE NaN \in {a, b}
    BY <1>6, <2>1, <2>2 DEF Twice
  <2>3. CASE NaN \notin {a, b}
    <3>1. m = a + b /\ a \in R \cap Nat /\ b \in R \cap Nat
      BY <1>3, <2>1, <2>3 DEF Twice
    <3> QED
      BY <1>4, <3>1
  <2> QED
    BY <2>2, <2>3
<1> QED
  BY <1>5, <1>6

\* A place of a sorted list has a value between those of G when neither the
\* places up to it nor the places from it on are all outside G.
LEMMA PlaceIsBetween ==
  ASSUME NEW D, IsFiniteSet(D), NEW f \in [D -> Nat], NEW k \in 1..Cardinality(D),
         NEW G \in SUBSET D, G # {},
         Cardinality(D \ G) < k, Cardinality(D \ G) < Cardinality(D) - k + 1
  PROVE  LET good == {f[g] : g \in G}
         IN  Min(good) <= Sorted(f)[k] /\ Sorted(f)[k] <= Max(good)
<1> DEFINE good == {f[g] : g \in G}
           v == Sorted(f)[k]
           n == Cardinality(D)
           bad == Cardinality(D \ G)
<1>1. n \in Nat /\ bad \in Nat /\ IsFiniteSet(D \ G)
  BY FS_CardinalityType, FS_Subset
<1>2. v \in Nat /\ Cardinality(Below(f, v)) < k /\ Cardinality(UpTo(f, v)) >= k
  BY SortedFacts, RangeIsFinite
<1>3. /\ Below(f, v) \subseteq D /\ UpTo(f, v) \subseteq D
      /\ Cardinality(Below(f, v)) \in Nat /\ Cardinality(UpTo(f, v)) \in Nat
  BY FS_Subset, FS_CardinalityType DEF Below, UpTo
<1>4. /\ good \in SUBSET Nat /\ IsFiniteSet(good) /\ good # {}
  <2>1. good \subseteq Range(f)
    BY DEF Range
  <2> QED
    BY <2>1, RangeIsFinite, FS_Subset
<1>5. /\ Min(good) \in Nat /\ \A g \in G : Min(good) <= f[g]
      /\ Max(good) \in Nat /\ \A g \in G : f[g] <= Max(good)
  <2>1. \A x \in good : Min(good) <= x /\ Max(good) >= x /\ x \in Nat
    BY <1>4, MinAndMax
  <2>2. Min(good) \in Nat /\ Max(good) \in Nat
    BY <1>4, MinAndMax
  <2> HIDE DEF good
  <2>3. \A g \in G : f[g] \in good
    BY DEF good
  <2> QED
    BY <2>1, <2>2, <2>3
<1> HIDE DEF v, good
<1>6. ASSUME v < Min(good) PROVE FALSE
  <2>1. UpTo(f, v) \subseteq D \ G
    BY <1>2, <1>5, <1>6 DEF UpTo
  <2>2. Cardinality(UpTo(f, v)) <= bad
    BY <1>1, <2>1, FS_Subset
  <2> QED
    BY <1>1, <1>2, <1>3, <2>2
<1>7. ASSUME Max(good) < v PROVE FALSE
  <2>1. D \ Below(f, v) \subseteq D \ G
    <3>1. \A g \in G : f[g] < v
      BY <1>2, <1>5, <1>7
    <3> QED
      BY <3>1 DEF Below
  <2>2. Cardinality(D \ Below(f, v)) <= bad
    BY <1>1, <2>1, FS_Subset
  <2>3. Cardinality(D \ Below(f, v)) = n - Cardinality(Below(f, v))
    <3>1. D \cap Below(f, v) = Below(f, v)
      BY <1>3
    <3> QED
      BY <3>1, FS_Difference
  <2> QED
    BY <1>1, <1>2, <1>3, <2>2, <2>3
<1>8. Min(good) <= v /\ v <= Max(good)
  BY <1>2, <1>5, <1>6, <1>7
<1> QED
  BY <1>8 DEF v, good

\* The median lies between values of G when fewer than half are outside G.
LEMMA MedianIsTrusted ==
  ASSUME NEW D, IsFiniteSet(D), NEW f \in [D -> Nat], NEW G \in SUBSET D,
         2 * Cardinality(D \ G) < Cardinality(D), NEW m \in Medians(f)
  PROVE  LET good == {f[g] : g \in G}
         IN  2 * Min(good) <= m /\ m <= 2 * Max(good)
<1> DEFINE n == Cardinality(D)
           bad == Cardinality(D \ G)
           mid == n \div 2
           good == {f[g] : g \in G}
<1>1. n \in Nat /\ bad \in Nat /\ n # 0
  BY FS_CardinalityType, FS_Subset
<1>2. G # {}
  <2>1. G = {} => bad = n
    OBVIOUS
  <2> QED
    BY <1>1, <2>1
<1>3. Range(f) \subseteq Nat /\ NaN \notin Range(f) /\ DOMAIN f = D
  <2>1. Range(f) \subseteq Nat
    BY RangeIsFinite
  <2>2. NaN \notin Nat
    BY DEF NaN, Undefined
  <2> QED
    BY <2>1, <2>2
<1>4. Min(good) \in Nat /\ Max(good) \in Nat
  <2>1. good \subseteq Range(f)
    BY DEF Range
  <2>2. good \in SUBSET Nat /\ IsFiniteSet(good) /\ good # {}
    BY <1>2, <1>3, <2>1, RangeIsFinite, FS_Subset
  <2> HIDE DEF good
  <2> QED
    BY <2>2, MinAndMax
<1>5. ASSUME NEW k \in 1..n, bad < k, bad < n - k + 1
      PROVE  Sorted(f)[k] \in Nat /\ Min(good) <= Sorted(f)[k] /\ Sorted(f)[k] <= Max(good)
  BY <1>2, <1>3, <1>5, PlaceIsBetween, SortedFacts
<1> HIDE DEF good
<1>6. CASE n % 2 = 1
  <2>1. m = 2 * Sorted(f)[mid + 1]
    BY <1>3, <1>6 DEF Medians
  <2>2. mid + 1 \in 1..n /\ bad < mid + 1 /\ bad < n - (mid + 1) + 1
    BY <1>1, <1>6, MiddleFacts
  <2>3. Sorted(f)[mid + 1] \in Nat /\ Min(good) <= Sorted(f)[mid + 1] /\ Sorted(f)[mid + 1] <= Max(good)
    BY <1>5, <2>2
  <2>4. 2 * Min(good) <= m /\ m <= 2 * Max(good)
    BY <1>4, <2>1, <2>3
  <2> QED
    BY <2>4 DEF good
<1>7. CASE n % 2 # 1
  <2>1. m = Sorted(f)[mid] + Sorted(f)[mid + 1]
    BY <1>3, <1>7 DEF Medians
  <2>2. /\ mid \in 1..n /\ bad < mid /\ bad < n - mid + 1
        /\ mid + 1 \in 1..n /\ bad < mid + 1 /\ bad < n - (mid + 1) + 1
    BY <1>1, <1>7, MiddleFacts
  <2>3. Sorted(f)[mid] \in Nat /\ Min(good) <= Sorted(f)[mid] /\ Sorted(f)[mid] <= Max(good)
    BY <1>5, <2>2
  <2>4. Sorted(f)[mid + 1] \in Nat /\ Min(good) <= Sorted(f)[mid + 1] /\ Sorted(f)[mid + 1] <= Max(good)
    BY <1>5, <2>2
  <2>5. 2 * Min(good) <= m /\ m <= 2 * Max(good)
    BY <1>4, <2>1, <2>3, <2>4
  <2> QED
    BY <2>5 DEF good
<1> QED
  BY <1>6, <1>7

(***************************************************************************)
(* The shuffle                                                             *)
(***************************************************************************)

\* An exchange of two elements keeps the elements.
LEMMA ExchangeKeepsElements ==
  ASSUME NEW n \in Nat, NEW s \in [1..n -> Oracles], NEW k \in 1..n, NEW j \in 1..n
  PROVE  Exchanged(s, k, j) \in [1..n -> Oracles] /\ Range(Exchanged(s, k, j)) = Range(s)
<1> DEFINE t == Exchanged(s, k, j)
<1>1. t \in [1..n -> Oracles]
  BY DEF Exchanged
<1>2. \A i \in 1..n : t[i] = IF i = j THEN s[k] ELSE IF i = k THEN s[j] ELSE s[i]
  BY DEF Exchanged
<1> HIDE DEF t
<1>3. \A i \in 1..n : \E h \in 1..n : t[i] = s[h]
  BY <1>2
<1>4. \A i \in 1..n : \E h \in 1..n : s[i] = t[h]
  <2> SUFFICES ASSUME NEW i \in 1..n PROVE \E h \in 1..n : s[i] = t[h]
    OBVIOUS
  <2>1. CASE i = k
    BY <1>2, <2>1
  <2>2. CASE i = j
    <3>1. CASE j = k
      BY <1>2, <2>2, <3>1
    <3>2. CASE j # k
      BY <1>2, <2>2, <3>2
    <3> QED
      BY <3>1, <3>2
  <2>3. CASE i # k /\ i # j
    BY <1>2, <2>3
  <2> QED
    BY <2>1, <2>2, <2>3
<1>5. Range(t) = {t[i] : i \in 1..n} /\ Range(s) = {s[i] : i \in 1..n}
  BY <1>1 DEF Range
<1>6. Range(t) = Range(s)
  <2>1. ASSUME NEW x \in Range(t) PROVE x \in Range(s)
    <3>1. PICK i \in 1..n : x = t[i]
      BY <1>5
    <3>2. PICK h \in 1..n : t[i] = s[h]
      BY <1>3
    <3> QED
      BY <1>5, <3>1, <3>2
  <2>2. ASSUME NEW x \in Range(s) PROVE x \in Range(t)
    <3>1. PICK i \in 1..n : x = s[i]
      BY <1>5
    <3>2. PICK h \in 1..n : s[i] = t[h]
      BY <1>4
    <3> QED
      BY <1>5, <3>1, <3>2
  <2> QED
    BY <2>1, <2>2
<1> QED
  BY <1>1, <1>6 DEF t

\* A set with n in it, and with every number whose successor it has, has all
\* numbers from n down to 1: the induction in the direction of the shuffle.
LEMMA DownToOne ==
  ASSUME NEW n \in Nat, NEW T \in SUBSET (1..n), n \in T,
         \A m \in 1..n : m # n /\ m + 1 \in T => m \in T
  PROVE  1..n \subseteq T
<1> DEFINE Bad == (1..n) \ T
<1>1. ASSUME Bad # {} PROVE FALSE
  <2>1. Bad \in SUBSET Nat /\ IsFiniteSet(Bad)
    BY FS_Interval, FS_Subset
  <2>2. PICK m \in Bad : \A x \in Bad : x <= m
    BY <1>1, <2>1, GreatestNumber
  <2>3. m \in 1..n /\ m # n
    BY <2>2
  <2>4. m + 1 \in 1..n /\ ~(m + 1 <= m)
    BY <2>3
  <2>5. m + 1 \in T
    BY <2>2, <2>4
  <2> QED
    BY <2>2, <2>3, <2>5
<1> QED
  BY <1>1

\* The numbers drawn tell every place with which one it is exchanged.
Drawn(l) == \A k \in 1..Len(l) : draws[k] \in 1..k

\* The recursion of the shuffle has a solution.
LEMMA ShuffleIsDefined ==
  ASSUME NEW l \in Seq(Oracles), l # <<>>
  PROVE  \E g : g = [k \in 1..Len(l) |->
                       IF k = Len(l) THEN Exchanged(l, k, draws[k])
                                     ELSE Exchanged(g[k + 1], k, draws[k])]
<1> DEFINE n == Len(l)
           Step(g, k) == IF k = n THEN Exchanged(l, k, draws[k])
                                  ELSE Exchanged(g[k + 1], k, draws[k])
           T == {m \in 1..n : \E g : g = [k \in m..n |-> Step(g, k)]}
<1>1. n \in Nat /\ n >= 1
  OBVIOUS
<1>2. n \in T
  <2> DEFINE g == [k \in n..n |-> Exchanged(l, k, draws[k])]
  <2>1. \A k \in n..n : k = n
    BY <1>1
  <2>2. g = [k \in n..n |-> Step(g, k)]
    BY <2>1, Zenon
  <2>3. n \in 1..n
    BY <1>1
  <2> QED
    BY <2>2, <2>3, Zenon
<1>3. ASSUME NEW m \in 1..n, m # n, m + 1 \in T
      PROVE  m \in T
  <2>1. PICK g : g = [k \in (m + 1)..n |-> Step(g, k)]
    BY <1>3, Zenon
  <2> DEFINE h == [k \in m..n |-> IF k = m THEN Exchanged(g[m + 1], m, draws[m]) ELSE g[k]]
  <2>2. m + 1 \in m..n /\ m + 1 # m
    BY <1>1, <1>3
  <2>3. ASSUME NEW k \in m..n PROVE h[k] = Step(h, k)
    <3>1. CASE k = m
      <4>1. h[m + 1] = g[m + 1]
        BY <2>2
      <4>2. h[k] = Exchanged(g[m + 1], k, draws[k])
        BY <3>1
      <4> QED
        BY <1>3, <3>1, <4>1, <4>2, Zenon
    <3>2. CASE k # m /\ k = n
      <4>1. k \in (m + 1)..n
        BY <1>1, <1>3, <3>2
      <4>2. g[k] = Step(g, k)
        BY <2>1, <4>1, Zenon
      <4>3. h[k] = g[k]
        BY <3>2
      <4> QED
        BY <3>2, <4>2, <4>3, Zenon
    <3>3. CASE k # m /\ k # n
      <4>1. k \in (m + 1)..n /\ k + 1 \in m..n /\ k + 1 # m
        BY <1>1, <1>3, <3>3
      <4>2. g[k] = Step(g, k)
        BY <2>1, <4>1, Zenon
      <4>3. h[k] = g[k] /\ h[k + 1] = g[k + 1]
        BY <3>3, <4>1
      <4> QED
        BY <3>3, <4>2, <4>3, Zenon
    <3> QED
      BY <3>1, <3>2, <3>3
  <2>4. h = [k \in m..n |-> h[k]]
    OBVIOUS
  <2>5. h = [k \in m..n |-> Step(h, k)]
    <3> HIDE DEF h, Step
    <3> QED
      BY <2>3, <2>4
  <2> QED
    BY <2>5, Zenon
<1>4. 1..n \subseteq T
  <2> HIDE DEF T
  <2>1. T \in SUBSET (1..n)
    BY DEF T
  <2> QED
    BY <1>1, <1>2, <1>3, <2>1, DownToOne
<1>5. 1 \in T
  BY <1>1, <1>4
<1> QED
  BY <1>5, Zenon

\* The shuffle of a ledger has the elements of the ledger.
LEMMA ShuffleKeepsElements ==
  ASSUME NEW l \in Seq(Oracles), l # <<>>, Drawn(l)
  PROVE  /\ RandomPermutation(l) \in [1..Len(l) -> Oracles]
         /\ Range(RandomPermutation(l)) = Range(l)
<1> DEFINE down == CHOOSE g : g = [k \in 1..Len(l) |->
                       IF k = Len(l) THEN Exchanged(l, k, draws[k])
                                     ELSE Exchanged(g[k + 1], k, draws[k])]
<1>1. RandomPermutation(l) = down[1]
  BY DEF RandomPermutation
<1>2. down = [k \in 1..Len(l) |->
                IF k = Len(l) THEN Exchanged(l, k, draws[k])
                              ELSE Exchanged(down[k + 1], k, draws[k])]
  BY ShuffleIsDefined, Zenon
<1> HIDE DEF down
<1>3. PICK n : n = Len(l)
  OBVIOUS
<1>4. n \in Nat /\ n >= 1 /\ l \in [1..n -> Oracles]
  BY <1>3
<1>5. n \in 1..n /\ \A k \in 1..n : draws[k] \in 1..n
  BY <1>3, <1>4 DEF Drawn
<1>6. /\ down[n] = Exchanged(l, n, draws[n])
      /\ \A k \in 1..n : k # n => down[k] = Exchanged(down[k + 1], k, draws[k])
  BY <1>2, <1>3, <1>5
<1> DEFINE T == {m \in 1..n : down[m] \in [1..n -> Oracles] /\ Range(down[m]) = Range(l)}
<1>7. n \in T
  <2>1. draws[n] \in 1..n
    BY <1>5
  <2>2. Exchanged(l, n, draws[n]) \in [1..n -> Oracles]
          /\ Range(Exchanged(l, n, draws[n])) = Range(l)
    BY <1>4, <1>5, <2>1, ExchangeKeepsElements
  <2> QED
    BY <1>5, <1>6, <2>2
<1>8. ASSUME NEW m \in 1..n, m # n, m + 1 \in T
      PROVE  m \in T
  <2>1. down[m] = Exchanged(down[m + 1], m, draws[m])
    BY <1>6, <1>8
  <2>2. down[m + 1] \in [1..n -> Oracles] /\ Range(down[m + 1]) = Range(l)
    BY <1>8
  <2>3. draws[m] \in 1..n
    BY <1>5
  <2>4. Exchanged(down[m + 1], m, draws[m]) \in [1..n -> Oracles]
          /\ Range(Exchanged(down[m + 1], m, draws[m])) = Range(down[m + 1])
    BY <1>4, <2>2, <2>3, ExchangeKeepsElements
  <2> QED
    BY <2>1, <2>2, <2>4
<1>9. 1..n \subseteq T
  <2>1. T \in SUBSET (1..n)
    OBVIOUS
  <2> HIDE DEF T
  <2> QED
    BY <1>4, <1>7, <1>8, <2>1, DownToOne
<1>10. 1 \in T
  BY <1>4, <1>9
<1> QED
  BY <1>1, <1>3, <1>10

(***************************************************************************)
(* Types                                                                   *)
(***************************************************************************)

\* f and the quorum of a ledger that was read, and its members.
LEMMA LedgerFacts ==
  ASSUME ledger \in LedgersOf, NEW i \in Oracles
  PROVE  /\ ledger[i] \in Seq(Oracles) /\ ledger[i] # <<>>
         /\ Len(ledger[i]) \in Nat /\ Len(ledger[i]) >= 1
         /\ F(ledger[i]) \in Nat /\ Quorum(ledger[i]) = 2 * F(ledger[i]) + 1
         /\ Members(ledger[i]) = Range(ledger[i])
         /\ Members(ledger[i]) \subseteq Oracles /\ IsFiniteSet(Members(ledger[i]))
<1>1. ledger[i] \in Seq(Oracles) /\ ledger[i] # <<>>
  BY OraclesAssumption
<1>2. Len(ledger[i]) \in Nat /\ Len(ledger[i]) >= 1
  BY <1>1
<1>3. F(ledger[i]) \in Nat
  <2>1. PICK n \in Nat : n = Len(ledger[i]) /\ n >= 1
    BY <1>2
  <2>2. PICK m \in Nat : m = n - 1
    BY <2>1
  <2>3. m \div 3 \in Nat
    OBVIOUS
  <2> QED
    BY <2>1, <2>2, <2>3 DEF F
<1>4. Members(ledger[i]) = Range(ledger[i]) /\ Members(ledger[i]) \subseteq Oracles
  BY <1>1 DEF Members, ToSet, Range
<1>5. IsFiniteSet(Members(ledger[i]))
  BY <1>4, OraclesAssumption, FS_Subset
<1> QED
  BY <1>1, <1>2, <1>3, <1>4, <1>5 DEF Quorum

\* The report is a function from its observers, which are a quorum of them.
ReportInv ==
  /\ report \in [Observers -> Numbers \ {None}]
  /\ report # <<>> => Cardinality(Observers) >= Quorum(ledger[Leader])

\* The answers of the price APIs, and the prices made of them.
LEMMA AnswersAreNumbers ==
  ASSUME NEW i \in Oracles, NEW a \in AllData(i)
  PROVE  /\ a \in [1..3 -> Nat \cup {Undefined, Null}]
         /\ ToSet(a) = {a[k] : k \in 1..3}
<1>1. Answers(i) \subseteq Nat \cup {Undefined, Null}
  BY ValuesAssumption DEF Answers
<1>2. Messari(i) \subseteq Nat \cup {Undefined, Null} /\ Coingecko(i) \subseteq Nat \cup {Undefined, Null}
  BY <1>1 DEF Messari, Coingecko
<1>3. Alphavantage(i) \subseteq Nat \cup {Undefined, Null}
  <2>1. Answers(i) \ {Undefined, Null} \subseteq Nat
    BY <1>1
  <2>2. \A x, y \in Nat : (x + y) \div 2 \in Nat
    OBVIOUS
  <2> QED
    BY <2>1, <2>2 DEF Alphavantage
<1>4. a \in [1..3 -> Nat \cup {Undefined, Null}] /\ DOMAIN a = 1..3
  BY <1>2, <1>3 DEF AllData
<1> QED
  BY <1>4 DEF ToSet

\* What is left of the answers without the failed ones.
LEMMA FilteredAnswers ==
  ASSUME NEW i \in Oracles, NEW a \in AllData(i)
  PROVE  LET f == FilterNotNull(a)
         IN  /\ f \in [DOMAIN f -> Nat \cup {NaN}] /\ IsFiniteSet(DOMAIN f)
             /\ Range(f) = ToSet(a) \ {Null}
<1> DEFINE f == FilterNotNull(a)
           D == {k \in 1..3 : a[k] # Null}
<1>1. a \in [1..3 -> Nat \cup {Undefined, Null}] /\ ToSet(a) = {a[k] : k \in 1..3}
  BY AnswersAreNumbers
<1>2. f = [k \in D |-> a[k]] /\ DOMAIN f = D
  BY <1>1 DEF FilterNotNull, Restrict
<1>3. f \in [D -> Nat \cup {NaN}]
  BY <1>1, <1>2 DEF NaN
<1>4. IsFiniteSet(D)
  <2>1. IsFiniteSet(1..3)
    <3>1. 1 \in Int /\ 3 \in Int
      OBVIOUS
    <3> QED
      BY <3>1, FS_Interval, Zenon
  <2>2. D \subseteq 1..3
    OBVIOUS
  <2> HIDE DEF D
  <2> QED
    BY <2>1, <2>2, FS_Subset
<1>5. Range(f) = ToSet(a) \ {Null}
  BY <1>1, <1>2 DEF Range
<1> QED
  BY <1>2, <1>3, <1>4, <1>5

\* A rounded number is a number.
LEMMA RoundedIsNumber ==
  ASSUME NEW q \in Nat \cup {NaN}
  PROVE  Rounded(q) \in Nat \cup {NaN}
BY DEF Rounded, NaN, Undefined

\* The slot of an oracle is an index, or -1.
LEMMA SlotType ==
  ASSUME ledger \in LedgersOf, NEW i \in Oracles
  PROVE  SlotOf(i) \in Nat \cup {-1}
<1> DEFINE found == {k \in DOMAIN ledger[i] : RandomPermutation(ledger[i])[k] = i}
<1>1. DOMAIN ledger[i] = 1..Len(ledger[i]) /\ Len(ledger[i]) \in Nat
  BY LedgerFacts
<1>2. found \in SUBSET Nat /\ IsFiniteSet(found) /\ \A k \in found : k >= 1
  <2>1. PICK n \in Nat : DOMAIN ledger[i] = 1..n
    BY <1>1
  <2>2. IsFiniteSet(1..n)
    BY FS_Interval
  <2>3. found \subseteq 1..n
    BY <2>1
  <2> HIDE DEF found
  <2>4. IsFiniteSet(found)
    BY <2>2, <2>3, FS_Subset
  <2> QED
    BY <2>3, <2>4
<1>3. SlotOf(i) = IF found = {} THEN -1 ELSE Min(found) - 1
  BY DEF SlotOf
<1> HIDE DEF found
<1>4. CASE found = {}
  BY <1>3, <1>4
<1>5. CASE found # {}
  <2>1. Min(found) \in Nat /\ Min(found) >= 1
    BY <1>2, <1>5, MinAndMax
  <2> QED
    BY <1>3, <1>5, <2>1
<1> QED
  BY <1>4, <1>5

LEMMA TypeInitially == Init => TypeOK /\ ReportInv
<1> SUFFICES ASSUME Init PROVE TypeOK /\ ReportInv
  OBVIOUS
<1>1. Observers = {}
  BY DEF Init, Observers
<1>2. report \in [Observers -> Numbers \ {None}]
  BY <1>1 DEF Init
<1>3. observation \in [Oracles -> Numbers] /\ up \in [Oracles -> BOOLEAN]
  BY DEF Init, Numbers
<1>4. signature \in [Oracles -> {"none", "not due", "empty", "signed"}]
  BY DEF Init
<1>5. draws \in Seq(Nat) /\ fetched = <<>> /\ handled = <<>> /\ attesting = {}
  BY DEF Init
<1>6. TypeOK
  BY <1>1, <1>3, <1>4, <1>5 DEF Init, TypeOK
<1> QED
  BY <1>2, <1>6 DEF ReportInv, Init

LEMMA TypePreserved == TypeOK /\ ReportInv /\ [Next]_vars => TypeOK' /\ ReportInv'
<1> SUFFICES ASSUME TypeOK, ReportInv, [Next]_vars
             PROVE  TypeOK' /\ ReportInv'
  OBVIOUS
<1> USE DEF Observers
<1>1. ASSUME NEW i \in Oracles, GetData(i)
      PROVE  TypeOK' /\ ReportInv'
  <2>1. PICK a \in AllData(i) :
          /\ fetched' = <<i, ToSet(a) \ {Null}>>
          /\ IF DOMAIN FilterNotNull(a) = {}
               THEN up' = [up EXCEPT ![i] = FALSE] /\ UNCHANGED observation
               ELSE /\ \E q \in Medians(FilterNotNull(a)) :
                         observation' = [observation EXCEPT ![i] = Rounded(q)]
                    /\ UNCHANGED up
    BY <1>1 DEF GetData
  <2>2. UNCHANGED <<ledger, chain, elapsed, cached, report, signature, attesting, draws, handled>>
    BY <1>1 DEF GetData
  <2>3. ToSet(a) \ {Null} \subseteq Nat \cup {NaN}
    BY AnswersAreNumbers DEF NaN
  <2>4. up' \in [Oracles -> BOOLEAN]
    BY <2>1 DEF TypeOK
  <2>5. observation' \in [Oracles -> Numbers]
    <3>1. CASE DOMAIN FilterNotNull(a) = {}
      BY <2>1, <3>1 DEF TypeOK
    <3>2. CASE DOMAIN FilterNotNull(a) # {}
      <4>1. PICK q \in Medians(FilterNotNull(a)) :
              observation' = [observation EXCEPT ![i] = Rounded(q)]
        BY <2>1, <3>2
      <4>2. q \in Nat \cup {NaN}
        BY <3>2, FilteredAnswers, MedianLiesBetween
      <4>3. Rounded(q) \in Numbers
        BY <4>2, RoundedIsNumber DEF Numbers
      <4> QED
        BY <4>1, <4>3 DEF TypeOK
    <3> QED
      BY <3>1, <3>2
  <2>6. fetched' # <<>> => fetched'[1] \in Oracles /\ fetched'[2] \subseteq Nat \cup {NaN}
    BY <2>1, <2>3
  <2> QED
    BY <2>2, <2>4, <2>5, <2>6 DEF TypeOK, ReportInv
<1>2. ASSUME AssembleReport
      PROVE  TypeOK' /\ ReportInv'
  <2>1. PICK S \in SUBSET {i \in Members(ledger[Leader]) : observation[i] # None} :
          Cardinality(S) >= Quorum(ledger[Leader]) /\ report' = [i \in S |-> observation[i]]
    BY <1>2 DEF AssembleReport
  <2>2. /\ observation' = [i \in Oracles |-> None] /\ fetched' = <<>> /\ chain' \in LastData
        /\ elapsed' \in BOOLEAN
        /\ UNCHANGED <<ledger, up, cached, signature, attesting, draws, handled>>
    BY <1>2 DEF AssembleReport
  <2>3. Members(ledger[Leader]) \subseteq Oracles
    BY LedgerFacts, OraclesAssumption DEF TypeOK
  <2>4. DOMAIN report' = S /\ report' \in [S -> Numbers \ {None}]
    BY <2>1, <2>3 DEF TypeOK
  <2>5. observation' \in [Oracles -> Numbers]
    BY <2>2 DEF Numbers
  <2> QED
    BY <2>1, <2>2, <2>4, <2>5 DEF TypeOK, ReportInv
<1>3. ASSUME NEW i \in Oracles, OnReportReq(i)
      PROVE  TypeOK' /\ ReportInv'
  <2>1. /\ \E m \in ReportMedians : signature' = [signature EXCEPT ![i] =
             CASE ~(elapsed \/ DeviatesBy(m, chain)) -> "not due"
               [] (elapsed \/ DeviatesBy(m, chain)) /\ ~Packable(i) -> "empty"
               [] (elapsed \/ DeviatesBy(m, chain)) /\ Packable(i) /\ CannotEncode -> "none"
               [] OTHER -> "signed"]
        /\ \E b \in BOOLEAN : up' = [up EXCEPT ![i] = b]
        /\ UNCHANGED <<ledger, chain, elapsed, cached, fetched, observation, report, attesting, draws, handled>>
    BY <1>3 DEF OnReportReq
  <2>2. signature' \in [Oracles -> {"none", "not due", "empty", "signed"}]
    <3>1. \E x \in {"none", "not due", "empty", "signed"} : signature' = [signature EXCEPT ![i] = x]
      BY <2>1
    <3> QED
      BY <3>1 DEF TypeOK
  <2>3. up' \in [Oracles -> BOOLEAN]
    BY <2>1 DEF TypeOK
  <2> QED
    BY <2>1, <2>2, <2>3 DEF TypeOK, ReportInv
<1>4. ASSUME NEW i \in Oracles, OnReport(i)
      PROVE  TypeOK' /\ ReportInv'
  <2>1. /\ \E b \in BOOLEAN : up' = [up EXCEPT ![Leader] = b] \/ UNCHANGED up
        /\ attesting' \subseteq attesting \cup Members(ledger[Leader])
        /\ cached' \in LastData \cup {None} \/ cached' = cached
        /\ draws' \in Draws \/ draws' = draws
        /\ UNCHANGED <<ledger, chain, elapsed, fetched, observation, report, signature, handled>>
    BY <1>4 DEF OnReport
  <2>2. up' \in [Oracles -> BOOLEAN]
    BY <2>1 DEF TypeOK
  <2>3. draws' \in Seq(Nat)
    BY <2>1, DrawsAssumption DEF TypeOK
  <2> QED
    BY <2>1, <2>2, <2>3 DEF TypeOK, ReportInv
<1>5. ASSUME NEW i \in Oracles, OnFinalUnknownObserver(i)
      PROVE  TypeOK' /\ ReportInv'
  BY <1>5 DEF OnFinalUnknownObserver, TypeOK, ReportInv
<1>6. ASSUME NEW i \in Oracles, OnFinal(i)
      PROVE  TypeOK' /\ ReportInv'
  <2>1. /\ \E v \in {"refused", "dropped", "queued"}, s \in {None, SlotOf(i)} :
             handled' = [oracle |-> i, verdict |-> v, slot |-> s]
        /\ UNCHANGED <<ledger, up, chain, elapsed, cached, fetched, observation, report, signature,
                       attesting, draws>>
    BY <1>6 DEF OnFinal, OnTransmit
  <2>2. SlotOf(i) \in Nat \cup {-1}
    BY SlotType DEF TypeOK
  <2>3. handled' \in [oracle : Oracles, verdict : {"refused", "dropped", "queued"},
                      slot : {None, -1} \cup Nat]
    BY <2>1, <2>2
  <2> QED
    BY <2>1, <2>3 DEF TypeOK, ReportInv
<1>7. ASSUME UNCHANGED vars
      PROVE  TypeOK' /\ ReportInv'
  BY <1>7 DEF vars, TypeOK, ReportInv
<1> QED
  BY <1>1, <1>2, <1>3, <1>4, <1>5, <1>6, <1>7 DEF Next

\* Every variable keeps its type.
THEOREM TypeCorrect == Spec => []TypeOK
<1>1. Init => TypeOK /\ ReportInv
  BY TypeInitially
<1>2. TypeOK /\ ReportInv /\ [Next]_vars => TypeOK' /\ ReportInv'
  BY TypePreserved
<1> QED
  BY <1>1, <1>2, PTL DEF Spec
(***************************************************************************)
(* What was decided of a report                                            *)
(***************************************************************************)

\* Numbers have one median.
LEMMA MedianIsOne ==
  ASSUME NEW f, NaN \notin Range(f), NEW m \in Medians(f), NEW q \in Medians(f)
  PROVE  m = q
<1>1. PICK x : Medians(f) = {x}
  BY DEF Medians
<1> QED
  BY <1>1

\* A report that can be encoded has a number of every observer.
LEMMA EncodableReport ==
  ASSUME TypeOK, ReportInv, ~CannotEncode
  PROVE  /\ report \in [Observers -> Nat] /\ IsFiniteSet(Observers)
         /\ NaN \notin Range(report)
<1>1. report \in [Observers -> Nat]
  BY DEF ReportInv, Numbers, CannotEncode
<1>2. NaN \notin Range(report)
  BY DEF CannotEncode, Observers, Range
<1>3. IsFiniteSet(Observers)
  BY LedgerFacts, OraclesAssumption, FS_Subset DEF TypeOK
<1> QED
  BY <1>1, <1>2, <1>3

\* The leader makes a report of at least one observation.
LEMMA ReportHasObservers ==
  ASSUME TypeOK, ReportInv, report # <<>>
  PROVE  Observers # {}
<1>1. Cardinality(Observers) >= 2 * F(ledger[Leader]) + 1 /\ F(ledger[Leader]) \in Nat
  BY LedgerFacts, OraclesAssumption DEF TypeOK, ReportInv
<1>2. ASSUME Observers = {} PROVE FALSE
  <2>1. Cardinality(Observers) = 0
    BY <1>2, FS_EmptySet
  <2>2. PICK n \in Nat : n = F(ledger[Leader])
    BY <1>1
  <2>3. 0 >= 2 * n + 1
    BY <1>1, <2>1, <2>2
  <2> QED
    BY <2>3
<1> QED
  BY <1>2

\* Twice the median of a report that can be encoded is one number.
LEMMA ReportMedianFacts ==
  ASSUME TypeOK, ReportInv, ~CannotEncode, report # <<>>, NEW m \in ReportMedians
  PROVE  m \in Nat /\ ReportMedians = {m}
<1>1. NaN \notin Range(report)
  BY EncodableReport
<1>2. Observers # {} /\ IsFiniteSet(Observers) /\ report \in [Observers -> Nat \cup {NaN}]
  BY EncodableReport, ReportHasObservers
<1>3. m \in Nat
  BY <1>1, <1>2, MedianLiesBetween DEF ReportMedians
<1>4. \A q \in ReportMedians : q = m
  BY <1>1, MedianIsOne DEF ReportMedians
<1> QED
  BY <1>3, <1>4

\* Why an oracle answered as it did: it signs what can be encoded and, before the
\* heartbeat, what deviates from the chain; it lets a report go only when no median
\* deviates.
SignatureInv ==
  \A i \in Oracles :
    /\ signature[i] # "none" => report # <<>>
    /\ signature[i] = "signed" => ~CannotEncode
    /\ signature[i] = "signed" /\ ~elapsed => \A m \in ReportMedians : DeviatesBy(m, chain)
    /\ signature[i] = "not due" /\ ~CannotEncode =>
         \A m \in ReportMedians : ~DeviatesBy(m, chain)

\* The signatures of the leader are those of members who signed, and more than
\* f of them when the final message is out.
FinalInv ==
  /\ attesting \subseteq {s \in Members(ledger[Leader]) : signature[s] = "signed"}
  /\ draws # <<>> =>
       /\ draws \in Draws /\ report # <<>> /\ ~CannotEncode
       /\ Cardinality(attesting) > F(ledger[Leader])

\* Why the last oracle handled the final message as it did.
HandledInv ==
  handled # <<>> =>
    /\ draws # <<>>
    /\ handled.verdict = "refused" => ledger[handled.oracle] # ledger[Leader]
    /\ handled.verdict = "dropped" =>
         \A m \in ReportMedians : cached # None /\ ~DeviatesAtLeast(m, cached)
    /\ handled.verdict = "queued" =>
         /\ handled.slot = SlotOf(handled.oracle)
         /\ cached # None => \A m \in ReportMedians : DeviatesAtLeast(m, cached)

IInv == TypeOK /\ ReportInv /\ SignatureInv /\ FinalInv /\ HandledInv

LEMMA SignaturePreserved ==
  TypeOK /\ ReportInv /\ SignatureInv /\ FinalInv /\ [Next]_vars => SignatureInv'
<1> SUFFICES ASSUME TypeOK, ReportInv, SignatureInv, FinalInv, [Next]_vars
             PROVE  SignatureInv'
  OBVIOUS
<1>1. ASSUME UNCHANGED <<chain, elapsed, report, signature>>
      PROVE  SignatureInv'
  BY <1>1 DEF SignatureInv, CannotEncode, Observers, ReportMedians
<1>2. ASSUME AssembleReport
      PROVE  SignatureInv'
  <2>1. report = <<>> /\ UNCHANGED signature
    BY <1>2 DEF AssembleReport
  <2>2. \A i \in Oracles : signature'[i] = "none"
    BY <2>1 DEF SignatureInv, TypeOK
  <2> QED
    BY <2>2 DEF SignatureInv
<1>3. ASSUME NEW i \in Oracles, OnReportReq(i)
      PROVE  SignatureInv'
  <2>1. PICK m \in ReportMedians :
          LET due == elapsed \/ DeviatesBy(m, chain) IN
          signature' = [signature EXCEPT ![i] =
             CASE ~due -> "not due"
               [] due /\ ~Packable(i) -> "empty"
               [] due /\ Packable(i) /\ CannotEncode -> "none"
               [] OTHER -> "signed"]
    BY <1>3 DEF OnReportReq
  <2>2. report # <<>> /\ UNCHANGED <<chain, elapsed, report>>
    BY <1>3 DEF OnReportReq
  <2>3. ReportMedians' = ReportMedians /\ CannotEncode' = CannotEncode
    BY <2>2 DEF ReportMedians, CannotEncode, Observers
  <2>4. \A j \in Oracles \ {i} : signature'[j] = signature[j]
    BY <2>1 DEF TypeOK
  <2>5. signature'[i] = "signed" => ~CannotEncode
    BY <2>1 DEF TypeOK
  <2>6. signature'[i] = "not due" => ~DeviatesBy(m, chain)
    BY <2>1 DEF TypeOK
  <2>7. ~CannotEncode => ReportMedians = {m}
    BY <2>2, ReportMedianFacts
  <2>8. \A q : DeviatesBy(q, chain)' <=> DeviatesBy(q, chain)
    BY <2>2 DEF DeviatesBy, Distance
  <2>9. signature'[i] = "not due" /\ ~CannotEncode => \A q \in ReportMedians : ~DeviatesBy(q, chain)
    BY <2>6, <2>7
  <2>10. signature'[i] = "signed" => elapsed \/ DeviatesBy(m, chain)
    BY <2>1 DEF TypeOK
  <2>11. signature'[i] = "signed" /\ ~elapsed => \A q \in ReportMedians : DeviatesBy(q, chain)
    BY <2>5, <2>7, <2>10
  <2> QED
    BY <2>2, <2>3, <2>4, <2>5, <2>8, <2>9, <2>11 DEF SignatureInv
<1>4. ASSUME NEW i \in Oracles, GetData(i) \/ OnReport(i) \/ OnFinalUnknownObserver(i) \/ OnFinal(i)
      PROVE  SignatureInv'
  <2>1. UNCHANGED <<chain, elapsed, report, signature>>
    BY <1>4 DEF GetData, OnReport, OnFinalUnknownObserver, OnFinal
  <2> QED
    BY <1>1, <2>1
<1>5. ASSUME UNCHANGED vars
      PROVE  SignatureInv'
  BY <1>1, <1>5 DEF vars
<1> QED
  BY <1>2, <1>3, <1>4, <1>5 DEF Next

LEMMA FinalPreserved ==
  TypeOK /\ ReportInv /\ SignatureInv /\ FinalInv /\ [Next]_vars => FinalInv'
<1> SUFFICES ASSUME TypeOK, ReportInv, SignatureInv, FinalInv, [Next]_vars
             PROVE  FinalInv'
  OBVIOUS
<1>0. /\ Members(ledger[Leader]) \subseteq Oracles /\ IsFiniteSet(Members(ledger[Leader]))
      /\ F(ledger[Leader]) \in Nat
  BY LedgerFacts, OraclesAssumption DEF TypeOK
<1>1. ASSUME UNCHANGED <<ledger, report, signature, attesting, draws>>
      PROVE  FinalInv'
  BY <1>1 DEF FinalInv, CannotEncode, Observers
<1>2. ASSUME AssembleReport
      PROVE  FinalInv'
  <2>1. report = <<>> /\ UNCHANGED <<ledger, signature, attesting, draws>>
    BY <1>2 DEF AssembleReport
  <2>2. draws = <<>>
    BY <2>1 DEF FinalInv
  <2> QED
    BY <2>1, <2>2 DEF FinalInv
<1>3. ASSUME NEW i \in Oracles, OnReportReq(i)
      PROVE  FinalInv'
  <2>1. /\ draws = <<>> /\ signature[i] = "none" /\ UNCHANGED <<ledger, attesting, draws>>
        /\ \E x : signature' = [signature EXCEPT ![i] = x]
    BY <1>3 DEF OnReportReq
  <2>2. \A s \in attesting : s # i /\ s \in Oracles
    BY <1>0, <2>1 DEF FinalInv
  <2>3. \A s \in attesting : signature'[s] = signature[s]
    BY <2>1, <2>2 DEF TypeOK
  <2> QED
    BY <2>1, <2>3 DEF FinalInv
<1>4. ASSUME NEW i \in Oracles, OnReport(i)
      PROVE  FinalInv'
  <2>1. /\ draws = <<>> /\ i \in Members(ledger[Leader])
        /\ UNCHANGED <<ledger, report, signature>>
    BY <1>4 DEF OnReport
  <2>2. CASE CannotEncode
    <3>1. UNCHANGED <<attesting, draws>>
      BY <1>4, <2>2 DEF OnReport
    <3> QED
      BY <1>1, <2>1, <3>1
  <2>3. CASE ~CannotEncode
    <3>1. /\ signature[i] = "signed" /\ attesting' = attesting \cup {i}
          /\ draws' # draws => Cardinality(attesting') > F(ledger[Leader]) /\ draws' \in Draws
      BY <1>4, <2>3 DEF OnReport, VerifySignature
    <3>2. report # <<>>
      BY <3>1 DEF SignatureInv
    <3>3. CannotEncode' = CannotEncode
      BY <2>1 DEF CannotEncode, Observers
    <3> QED
      BY <2>1, <2>3, <3>1, <3>2, <3>3 DEF FinalInv
  <2> QED
    BY <2>2, <2>3
<1>5. ASSUME NEW i \in Oracles, GetData(i) \/ OnFinalUnknownObserver(i) \/ OnFinal(i)
      PROVE  FinalInv'
  <2>1. UNCHANGED <<ledger, report, signature, attesting, draws>>
    BY <1>5 DEF GetData, OnFinalUnknownObserver, OnFinal
  <2> QED
    BY <1>1, <2>1
<1>6. ASSUME UNCHANGED vars
      PROVE  FinalInv'
  BY <1>1, <1>6 DEF vars
<1> QED
  BY <1>2, <1>3, <1>4, <1>5, <1>6 DEF Next

\* What more than f members signed convinces whoever has the leader's ledger.
LEMMA AttestedReportVerifies ==
  ASSUME TypeOK, FinalInv, draws # <<>>, NEW i \in Oracles, ledger[i] = ledger[Leader]
  PROVE  VerifyAttestedReport(i)
BY DEF FinalInv, VerifyAttestedReport, VerifySignature

LEMMA HandledPreserved ==
  TypeOK /\ ReportInv /\ FinalInv /\ HandledInv /\ [Next]_vars => HandledInv'
<1> SUFFICES ASSUME TypeOK, ReportInv, FinalInv, HandledInv, [Next]_vars
             PROVE  HandledInv'
  OBVIOUS
<1>1. ASSUME UNCHANGED <<ledger, cached, report, draws, handled>>
      PROVE  HandledInv'
  BY <1>1 DEF HandledInv, ReportMedians, SlotOf, RandomPermutation
<1>2. ASSUME draws = <<>>, UNCHANGED handled
      PROVE  HandledInv'
  BY <1>2 DEF HandledInv
<1>3. ASSUME AssembleReport
      PROVE  HandledInv'
  <2>1. report = <<>> /\ UNCHANGED handled
    BY <1>3 DEF AssembleReport
  <2> QED
    BY <1>2, <2>1 DEF FinalInv
<1>4. ASSUME NEW i \in Oracles, OnReport(i)
      PROVE  HandledInv'
  BY <1>2, <1>4 DEF OnReport
<1>5. ASSUME NEW i \in Oracles, OnFinal(i)
      PROVE  HandledInv'
  <2>1. /\ draws # <<>> /\ UNCHANGED <<ledger, cached, report, draws>>
    BY <1>5 DEF OnFinal
  <2>2. ReportMedians' = ReportMedians /\ SlotOf(i)' = SlotOf(i)
    BY <2>1 DEF ReportMedians, SlotOf, RandomPermutation
  <2>3. CASE VerifyAttestedReport(i)
    <3>1. PICK m \in ReportMedians : OnTransmit(i, m)
      BY <1>5, <2>3 DEF OnFinal
    <3>2. ReportMedians = {m}
      BY <2>1, ReportMedianFacts DEF FinalInv
    <3>3. CASE cached = None \/ DeviatesAtLeast(m, cached)
      <4>1. handled' = [oracle |-> i, verdict |-> "queued", slot |-> SlotOf(i)]
        BY <3>1, <3>3 DEF OnTransmit
      <4>2. cached' # None => \A q \in ReportMedians' : DeviatesAtLeast(q, cached)'
        BY <2>1, <2>2, <3>2, <3>3 DEF DeviatesAtLeast
      <4> QED
        BY <2>1, <2>2, <4>1, <4>2 DEF HandledInv, DeviatesAtLeast
    <3>4. CASE ~(cached = None \/ DeviatesAtLeast(m, cached))
      <4>1. handled' = [oracle |-> i, verdict |-> "dropped", slot |-> None]
        BY <3>1, <3>4 DEF OnTransmit
      <4>2. \A q \in ReportMedians' : cached' # None /\ ~DeviatesAtLeast(q, cached)'
        BY <2>1, <2>2, <3>2, <3>4 DEF DeviatesAtLeast
      <4> QED
        BY <2>1, <4>1, <4>2 DEF HandledInv, DeviatesAtLeast
    <3> QED
      BY <3>3, <3>4
  <2>4. CASE ~VerifyAttestedReport(i)
    <3>1. handled' = [oracle |-> i, verdict |-> "refused", slot |-> None]
      BY <1>5, <2>4 DEF OnFinal
    <3>2. ledger[i] # ledger[Leader]
      BY <2>1, <2>4, AttestedReportVerifies
    <3> QED
      BY <2>1, <3>1, <3>2 DEF HandledInv
  <2> QED
    BY <2>3, <2>4
<1>6. ASSUME NEW i \in Oracles, GetData(i) \/ OnFinalUnknownObserver(i)
      PROVE  HandledInv'
  <2>1. UNCHANGED <<ledger, cached, report, draws, handled>>
    BY <1>6 DEF GetData, OnFinalUnknownObserver
  <2> QED
    BY <1>1, <2>1
<1>7. ASSUME NEW i \in Oracles, OnReportReq(i)
      PROVE  HandledInv'
  <2>1. UNCHANGED <<ledger, cached, report, draws, handled>>
    BY <1>7 DEF OnReportReq
  <2> QED
    BY <1>1, <2>1
<1>8. ASSUME UNCHANGED vars
      PROVE  HandledInv'
  BY <1>1, <1>8 DEF vars
<1> QED
  BY <1>3, <1>4, <1>5, <1>6, <1>7, <1>8 DEF Next

LEMMA Inductive == Spec => []IInv
<1>1. Init => IInv
  BY TypeInitially DEF IInv, Init, SignatureInv, FinalInv, HandledInv
<1>2. IInv /\ [Next]_vars => IInv'
  BY TypePreserved, SignaturePreserved, FinalPreserved, HandledPreserved DEF IInv
<1> QED
  BY <1>1, <1>2, PTL DEF Spec
(***************************************************************************)
(* The theorems                                                            *)
(***************************************************************************)

\* A larger number of quarters is not rounded to less.
LEMMA RoundedIsMonotone ==
  ASSUME NEW p \in Nat, NEW q \in Nat, p <= q
  PROVE  Rounded(p) <= Rounded(q)
<1>1. p # NaN /\ q # NaN
  BY DEF NaN, Undefined
<1>2. (p + 2) \div 4 <= (q + 2) \div 4
  OBVIOUS
<1> QED
  BY <1>1, <1>2 DEF Rounded

LEMMA RangeInitially == Init => ObservationInRange
BY DEF Init, ObservationInRange

LEMMA RangePreserved ==
  TypeOK /\ ObservationInRange /\ [Next]_vars => ObservationInRange'
<1> SUFFICES ASSUME TypeOK, ObservationInRange, [Next]_vars
             PROVE  ObservationInRange'
  OBVIOUS
<1>1. ASSUME UNCHANGED <<fetched, observation>>
      PROVE  ObservationInRange'
  BY <1>1 DEF ObservationInRange
<1>2. ASSUME NEW i \in Oracles, GetData(i)
      PROVE  ObservationInRange'
  <2>1. PICK a \in AllData(i) :
          /\ fetched' = <<i, ToSet(a) \ {Null}>>
          /\ IF DOMAIN FilterNotNull(a) = {}
               THEN up' = [up EXCEPT ![i] = FALSE] /\ UNCHANGED observation
               ELSE /\ \E q \in Medians(FilterNotNull(a)) :
                         observation' = [observation EXCEPT ![i] = Rounded(q)]
                    /\ UNCHANGED up
    BY <1>2 DEF GetData
  <2>2. observation[i] = None
    BY <1>2 DEF GetData
  <2>3. CASE DOMAIN FilterNotNull(a) = {}
    BY <2>1, <2>2, <2>3 DEF ObservationInRange
  <2>4. CASE DOMAIN FilterNotNull(a) # {}
    <3> DEFINE f == FilterNotNull(a)
               got == ToSet(a) \ {Null}
    <3>1. PICK q \in Medians(f) : observation' = [observation EXCEPT ![i] = Rounded(q)]
      BY <2>1, <2>4
    <3>2. /\ f \in [DOMAIN f -> Nat \cup {NaN}] /\ IsFiniteSet(DOMAIN f)
          /\ Range(f) = got
      BY FilteredAnswers
    <3> HIDE DEF f, got
    <3>3. \/ q = NaN /\ NaN \in got
          \/ q \in Nat /\ \E low, high \in got \cap Nat : 2 * low <= q /\ q <= 2 * high
      BY <2>4, <3>1, <3>2, MedianLiesBetween DEF f
    <3>4. observation'[i] = Rounded(q)
      BY <3>1 DEF TypeOK
    <3>5. CASE NaN \in got
      BY <2>1, <3>5 DEF ObservationInRange, got
    <3>6. CASE NaN \notin got
      <4>1. PICK low \in got \cap Nat, high \in got \cap Nat : 2 * low <= q /\ q <= 2 * high
        BY <3>3, <3>6
      <4>2. q \in Nat /\ 2 * low \in Nat /\ 2 * high \in Nat
        BY <3>3, <3>6
      <4>3. Rounded(2 * low) <= Rounded(q) /\ Rounded(q) <= Rounded(2 * high)
        BY <4>1, <4>2, RoundedIsMonotone
      <4>4. /\ \E x \in got : Rounded(2 * x) <= observation'[i]
            /\ \E x \in got : observation'[i] <= Rounded(2 * x)
        BY <3>4, <4>3
      <4>5. fetched'[1] = i /\ fetched'[2] = got
        BY <2>1 DEF got
      <4> QED
        BY <4>4, <4>5 DEF ObservationInRange, Rounded
    <3> QED
      BY <3>5, <3>6
  <2> QED
    BY <2>3, <2>4
<1>3. ASSUME AssembleReport
      PROVE  ObservationInRange'
  BY <1>3 DEF AssembleReport, ObservationInRange
<1>4. ASSUME NEW i \in Oracles,
             OnReportReq(i) \/ OnReport(i) \/ OnFinalUnknownObserver(i) \/ OnFinal(i)
      PROVE  ObservationInRange'
  <2>1. UNCHANGED <<fetched, observation>>
    BY <1>4 DEF OnReportReq, OnReport, OnFinalUnknownObserver, OnFinal
  <2> QED
    BY <1>1, <2>1
<1>5. ASSUME UNCHANGED vars
      PROVE  ObservationInRange'
  BY <1>1, <1>5 DEF vars
<1> QED
  BY <1>2, <1>3, <1>4, <1>5 DEF Next

\* However many fetchers fail, an observation lies between two answers up to
\* the rounding, or one of the answers was not a number (getData of
\* data.service.ts).
THEOREM ObservationIsInRange == Spec => []ObservationInRange
<1>1. Init => ObservationInRange
  BY RangeInitially
<1>2. TypeOK /\ ObservationInRange /\ [Next]_vars => ObservationInRange'
  BY RangePreserved
<1> QED
  BY <1>1, <1>2, TypeCorrect, PTL DEF Spec

LEMMA SignedFollows == IInv => SignedIsTrusted
<1> SUFFICES ASSUME IInv, NEW i \in Oracles, signature[i] = "signed",
                    Cardinality(Faulty) <= F(ledger[Leader]), NEW m \in ReportMedians
             PROVE  LET good == {report[o] : o \in Observers \ Faulty}
                    IN  2 * Min(good) <= m /\ m <= 2 * Max(good)
  BY Zenon DEF SignedIsTrusted
<1>1. ~CannotEncode /\ report # <<>>
  BY DEF IInv, SignatureInv
<1>2. report \in [Observers -> Nat] /\ IsFiniteSet(Observers)
  BY <1>1, EncodableReport DEF IInv
<1>3. /\ Cardinality(Observers) >= 2 * F(ledger[Leader]) + 1 /\ F(ledger[Leader]) \in Nat
  BY <1>1, LedgerFacts, OraclesAssumption DEF IInv, TypeOK, ReportInv
<1>4. IsFiniteSet(Faulty)
  BY OraclesAssumption, FS_Subset
<1> DEFINE G == Observers \ Faulty
<1>5. Observers \ G \subseteq Faulty /\ G \in SUBSET Observers
  OBVIOUS
<1>6. Cardinality(Observers \ G) <= Cardinality(Faulty) /\ Cardinality(Observers \ G) \in Nat
  BY <1>4, <1>5, FS_Subset, FS_CardinalityType
<1>7. 2 * Cardinality(Observers \ G) < Cardinality(Observers)
  BY <1>2, <1>3, <1>4, <1>6, FS_CardinalityType
<1> HIDE DEF G
<1>8. LET good == {report[o] : o \in G}
      IN  2 * Min(good) <= m /\ m <= 2 * Max(good)
  BY <1>2, <1>5, <1>7, MedianIsTrusted DEF ReportMedians
<1> QED
  BY <1>8 DEF G

\* With at most f faulty oracles, the median of what anybody signed lies between
\* two observations of oracles that are not faulty (_onReportReqReceived of
\* reportgen.follower.service.ts, computeMedian of reportgen/helpers.ts).
THEOREM SignedMedianIsTrusted == Spec => []SignedIsTrusted
<1>1. IInv => SignedIsTrusted
  BY SignedFollows
<1> QED
  BY <1>1, Inductive, PTL

\* What deviates is beyond alpha, or at it, and what does not is within.
LEMMA DeviationFacts ==
  ASSUME NEW m \in Nat, NEW last \in Nat
  PROVE  /\ DeviatesBy(m, last) <=> Distance(m, last) * 1000 > Alpha * last
         /\ DeviatesAtLeast(m, last) => Distance(m, last) * 1000 >= Alpha * last
         /\ ~DeviatesAtLeast(m, last) => m = last \/ Distance(m, last) * 1000 < Alpha * last
<1>1. m # NaN
  BY DEF NaN, Undefined
<1>2. PICK a \in Nat : a = Alpha
  BY ValuesAssumption
<1>3. PICK d \in Nat : d = Distance(m, last)
  <2>1. m > last => m - last \in Nat
    OBVIOUS
  <2>2. ~(m > last) => last - m \in Nat
    OBVIOUS
  <2> QED
    BY <2>1, <2>2 DEF Distance
<1>4. PICK p \in Nat : p = a * last
  OBVIOUS
<1>5. CASE last = 0
  <2>1. a * 0 = 0
    OBVIOUS
  <2>2. (DeviatesBy(m, last) <=> m # 0) /\ (DeviatesAtLeast(m, last) <=> m # 0)
    BY <1>1, <1>5 DEF DeviatesBy, DeviatesAtLeast
  <2>3. d = m
    BY <1>3, <1>5 DEF Distance
  <2>4. (m # 0 <=> m * 1000 > 0) /\ m * 1000 >= 0
    OBVIOUS
  <2> QED
    BY <1>2, <1>3, <1>5, <2>1, <2>2, <2>3, <2>4
<1>6. CASE last # 0
  <2>1. DeviatesBy(m, last) <=> d * 1000 > p
    BY <1>1, <1>2, <1>3, <1>4, <1>6 DEF DeviatesBy
  <2>2. DeviatesAtLeast(m, last) <=> d * 1000 >= p
    BY <1>1, <1>2, <1>3, <1>4, <1>6 DEF DeviatesAtLeast
  <2>3. ~(d * 1000 >= p) => d * 1000 < p
    OBVIOUS
  <2> QED
    BY <1>2, <1>3, <1>4, <2>1, <2>2, <2>3
<1> QED
  BY <1>5, <1>6

LEMMA AlphaFollows == IInv => AlphaDecides
<1> SUFFICES ASSUME IInv
             PROVE  AlphaDecides
  OBVIOUS
<1>1. chain \in Nat /\ (cached # None => cached \in Nat) /\ Alpha \in Nat
  <2>1. chain \in LastData \cup {0} /\ cached \in LastData \cup {0, None}
    BY DEF IInv, TypeOK
  <2> QED
    BY <2>1, ValuesAssumption
<1>2. ASSUME NEW i \in Oracles, signature[i] # "none", ~CannotEncode, NEW m \in ReportMedians
      PROVE  m \in Nat
  <2>1. report # <<>>
    BY <1>2, Zenon DEF IInv, SignatureInv
  <2> QED
    BY <1>2, <2>1, ReportMedianFacts DEF IInv
<1>3. ASSUME NEW i \in Oracles, signature[i] = "signed", ~elapsed, NEW m \in ReportMedians
      PROVE  Distance(m, chain) * 1000 > Alpha * chain
  <2>1. ~CannotEncode /\ DeviatesBy(m, chain)
    BY <1>3, Zenon DEF IInv, SignatureInv
  <2>2. m \in Nat
    BY <1>2, <1>3, <2>1
  <2> QED
    BY <1>1, <2>1, <2>2, DeviationFacts
<1>4. ASSUME NEW i \in Oracles, signature[i] = "not due", ~CannotEncode, NEW m \in ReportMedians
      PROVE  Distance(m, chain) * 1000 <= Alpha * chain
  <2>1. ~DeviatesBy(m, chain)
    BY <1>4, Zenon DEF IInv, SignatureInv
  <2>2. m \in Nat
    BY <1>2, <1>4
  <2>3. ~(Distance(m, chain) * 1000 > Alpha * chain)
    BY <1>1, <2>1, <2>2, DeviationFacts
  <2>4. Distance(m, chain) \in Int
    BY <1>1, <2>2 DEF Distance
  <2> QED
    BY <1>1, <2>3, <2>4
<1>5. ASSUME handled # <<>>, NEW m \in ReportMedians
      PROVE  m \in Nat
  BY <1>5, ReportMedianFacts DEF IInv, HandledInv, FinalInv
<1>6. ASSUME handled # <<>>, handled.verdict = "queued", cached # None, NEW m \in ReportMedians
      PROVE  Distance(m, cached) * 1000 >= Alpha * cached
  <2>1. DeviatesAtLeast(m, cached)
    BY <1>6 DEF IInv, HandledInv
  <2> QED
    BY <1>1, <1>5, <1>6, <2>1, DeviationFacts
<1>7. ASSUME handled # <<>>, handled.verdict = "dropped", NEW m \in ReportMedians
      PROVE  m = cached \/ Distance(m, cached) * 1000 < Alpha * cached
  <2>1. cached # None /\ ~DeviatesAtLeast(m, cached)
    BY <1>7 DEF IInv, HandledInv
  <2> QED
    BY <1>1, <1>5, <1>7, <2>1, DeviationFacts
<1>8. ASSUME NEW i \in Oracles, signature[i] = "signed", ~elapsed
      PROVE  \A m \in ReportMedians : Distance(m, chain) * 1000 > Alpha * chain
  BY <1>3, <1>8, Zenon
<1>9. ASSUME NEW i \in Oracles, signature[i] = "not due", ~CannotEncode
      PROVE  \A m \in ReportMedians : Distance(m, chain) * 1000 <= Alpha * chain
  BY <1>4, <1>9, Zenon
<1>10. ASSUME handled # <<>>, handled.verdict = "queued", cached # None
       PROVE  \A m \in ReportMedians : Distance(m, cached) * 1000 >= Alpha * cached
  BY <1>6, <1>10, Zenon
<1>11. ASSUME handled # <<>>, handled.verdict = "dropped"
       PROVE  \A m \in ReportMedians : m = cached \/ Distance(m, cached) * 1000 < Alpha * cached
  BY <1>7, <1>11, Zenon
<1>12. ASSUME NEW i \in Oracles
       PROVE  /\ signature[i] = "signed" /\ ~elapsed =>
                   \A m \in ReportMedians : Distance(m, chain) * 1000 > Alpha * chain
              /\ signature[i] = "not due" /\ ~CannotEncode =>
                   \A m \in ReportMedians : Distance(m, chain) * 1000 <= Alpha * chain
  <2>1. CASE signature[i] = "signed" /\ ~elapsed
    BY <1>8, <2>1
  <2>2. CASE signature[i] = "not due" /\ ~CannotEncode
    BY <1>9, <2>2
  <2> QED
    BY <2>1, <2>2
<1>13. ASSUME handled # <<>>
       PROVE  /\ handled.verdict = "queued" /\ cached # None =>
                   \A m \in ReportMedians : Distance(m, cached) * 1000 >= Alpha * cached
              /\ handled.verdict = "dropped" =>
                   \A m \in ReportMedians :
                     m = cached \/ Distance(m, cached) * 1000 < Alpha * cached
  BY <1>10, <1>11, <1>13
<1> QED
  BY <1>12, <1>13, Zenon DEF AlphaDecides

\* A report is signed before the heartbeat only when its median is beyond alpha
\* from that of the last report, and let go only when it is not; it is queued when
\* it is at alpha or beyond from what was transmitted, and dropped only within
\* (_shouldReport of reportgen.follower.service.ts, onTransmit of
\* transmit.service.ts).
THEOREM AlphaIsDecisive == Spec => []AlphaDecides
<1>1. IInv => AlphaDecides
  BY AlphaFollows
<1> QED
  BY <1>1, Inductive, PTL

LEMMA FinalFollows == IInv => FinalConvinces
<1> SUFFICES ASSUME IInv
             PROVE  FinalConvinces
  OBVIOUS
<1>1. handled # <<>> => (handled.verdict = "refused" => ledger[handled.oracle] # ledger[Leader])
  BY DEF IInv, HandledInv
<1>2. \A i \in Oracles : ledger[i] = ledger[Leader] => Packable(i)
  BY DEF IInv, TypeOK, Packable
<1> QED
  BY <1>1, <1>2 DEF FinalConvinces

\* What convinced the leader convinces whoever has the leader's ledger
\* (verifyAttestedReport of contract.service.ts).
THEOREM FinalMessageConvinces == Spec => []FinalConvinces
<1>1. IInv => FinalConvinces
  BY FinalFollows
<1> QED
  BY <1>1, Inductive, PTL

\* A slot that is not -1 is the place of the oracle in the permutation, and a
\* member has one.
LEMMA SlotFacts ==
  ASSUME IInv, draws # <<>>, NEW i \in Oracles
  PROVE  /\ SlotOf(i) # -1 => RandomPermutation(ledger[i])[SlotOf(i) + 1] = i
         /\ i \in Members(ledger[i]) => SlotOf(i) \in 0..(Len(ledger[i]) - 1)
<1> DEFINE P == RandomPermutation(ledger[i])
           found == {k \in DOMAIN ledger[i] : P[k] = i}
<1>1. ledger[i] \in Seq(Oracles) /\ ledger[i] # <<>> /\ Members(ledger[i]) = Range(ledger[i])
  BY LedgerFacts DEF IInv, TypeOK
<1>2. Drawn(ledger[i])
  <2>1. /\ draws \in Seq(Nat) /\ \A k \in DOMAIN draws : draws[k] \in 1..k
        /\ Len(ledger[i]) <= Len(draws)
    BY DrawsAssumption DEF IInv, TypeOK, FinalInv
  <2>2. 1..Len(ledger[i]) \subseteq DOMAIN draws
    BY <1>1, <2>1
  <2> QED
    BY <2>1, <2>2 DEF Drawn
<1>3. P \in [1..Len(ledger[i]) -> Oracles] /\ Range(P) = Members(ledger[i])
  BY <1>1, <1>2, ShuffleKeepsElements
<1>4. PICK n \in Nat : n = Len(ledger[i]) /\ DOMAIN ledger[i] = 1..n
  BY <1>1
<1>5. SlotOf(i) = IF found = {} THEN -1 ELSE Min(found) - 1
  BY DEF SlotOf
<1>6. found \subseteq 1..n
  BY <1>4
<1>7. i \in Members(ledger[i]) => found # {}
  <2>1. i \in Members(ledger[i]) => \E k \in DOMAIN P : P[k] = i
    BY <1>3 DEF Range
  <2>2. DOMAIN P = DOMAIN ledger[i]
    BY <1>3, <1>4
  <2> QED
    BY <2>1, <2>2
<1>8. found # {} => Min(found) \in found /\ Min(found) \in 1..n
  <2>1. IsFiniteSet(1..n)
    BY FS_Interval
  <2> HIDE DEF found
  <2>2. IsFiniteSet(found)
    BY <1>6, <2>1, FS_Subset
  <2>3. found \in SUBSET Nat
    BY <1>6
  <2> QED
    BY <1>6, <2>2, <2>3, MinAndMax
<1>9. SlotOf(i) # -1 => P[SlotOf(i) + 1] = i
  <2>1. SlotOf(i) # -1 => found # {} /\ SlotOf(i) = Min(found) - 1
    BY <1>5
  <2>2. \A x \in Nat : (x - 1) + 1 = x
    OBVIOUS
  <2>3. found # {} => P[Min(found)] = i /\ Min(found) \in Nat
    BY <1>8
  <2> QED
    BY <2>1, <2>2, <2>3
<1>10. found # {} => SlotOf(i) \in 0..(Len(ledger[i]) - 1)
  <2> HIDE DEF found
  <2> QED
    BY <1>4, <1>5, <1>8
<1> QED
  BY <1>7, <1>9, <1>10

LEMMA SlotFollows == IInv => OneOraclePerSlot
<1> SUFFICES ASSUME IInv, handled # <<>>, handled.verdict = "queued",
                    NEW i, i = handled.oracle, i \in Members(ledger[i])
             PROVE  /\ handled.slot \in 0..(Len(ledger[i]) - 1)
                    /\ \A j \in Oracles \ {i} : ledger[j] = ledger[i] => SlotOf(j) # handled.slot
  BY DEF OneOraclePerSlot
<1>1. draws # <<>> /\ handled.slot = SlotOf(i) /\ i \in Oracles
  BY DEF IInv, HandledInv, TypeOK
<1>2. SlotOf(i) \in 0..(Len(ledger[i]) - 1)
  BY <1>1, SlotFacts
<1>3. SlotOf(i) # -1
  BY <1>2
<1>4. ASSUME NEW j \in Oracles \ {i}, ledger[j] = ledger[i], SlotOf(j) = SlotOf(i)
      PROVE  FALSE
  <2>1. RandomPermutation(ledger[i])[SlotOf(i) + 1] = i
    BY <1>1, <1>3, SlotFacts
  <2>2. RandomPermutation(ledger[j])[SlotOf(j) + 1] = j
    BY <1>1, <1>3, <1>4, SlotFacts
  <2> QED
    BY <1>4, <2>1, <2>2
<1> QED
  BY <1>1, <1>2, <1>4

\* A member of its ledger has a slot, and shares it with no oracle of the same
\* ledger, whatever was drawn (_getTransmitDelayMs of transmit.service.ts).
THEOREM OneOracleInASlot == Spec => []OneOraclePerSlot
<1>1. IInv => OneOraclePerSlot
  BY SlotFollows
<1> QED
  BY <1>1, Inductive, PTL
=============================================================================
