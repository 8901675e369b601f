----------------------------- MODULE OrderLemmas -----------------------------
(* Facts about finite sets that several proofs need: their elements in an    *)
(* order, as a sequence, the greatest number of a set, and images.           *)
EXTENDS Integers, Sequences, FiniteSets, SequencesExt, FiniteSetsExt, FiniteSetTheorems, TLAPS

TotalOrder(R, S) ==
  /\ \A a, b \in S : a = b \/ <<a, b>> \in R \/ <<b, a>> \in R
  /\ \A a \in S : <<a, a>> \notin R
  /\ \A a, b, c \in S : <<a, b>> \in R /\ <<b, c>> \in R => <<a, c>> \in R

\* A sequence of all the elements of a set, each before the greater ones.
Lists(f, S, R) ==
  /\ f \in [1..Cardinality(S) -> S]
  /\ \A i, j \in 1..Cardinality(S) : i < j => <<f[i], f[j]>> \in R
  /\ \A a \in S : \E i \in 1..Cardinality(S) : f[i] = a

\* Those up to an element.
UpTo(S, R, a) == {b \in S : b = a \/ <<b, a>> \in R}

\* In a strict total order each number of elements is once the number of those up to
\* an element, and greater for a greater one.
LEMMA PlacesAreRanks ==
    ASSUME NEW S, IsFiniteSet(S), NEW R, TotalOrder(R, S)
    PROVE  /\ Cardinality(S) \in Nat
           /\ \A a \in S : Cardinality(UpTo(S, R, a)) \in 1..Cardinality(S)
           /\ \A n \in 1..Cardinality(S) : \E a \in S : Cardinality(UpTo(S, R, a)) = n
           /\ \A a, b \in S : Cardinality(UpTo(S, R, a)) = Cardinality(UpTo(S, R, b)) => a = b
           /\ \A a, b \in S : <<a, b>> \in R =>
                Cardinality(UpTo(S, R, a)) < Cardinality(UpTo(S, R, b))
<1> DEFINE N == Cardinality(S)
           upTo(a) == UpTo(S, R, a)
           rank == [a \in S |-> Cardinality(upTo(a))]
<1>0. /\ \A a, b \in S : a = b \/ <<a, b>> \in R \/ <<b, a>> \in R
      /\ \A a \in S : <<a, a>> \notin R
      /\ \A a, b, c \in S : <<a, b>> \in R /\ <<b, c>> \in R => <<a, c>> \in R
  BY DEF TotalOrder
<1>1. N \in Nat
  BY FS_CardinalityType
<1>2. \A a \in S : /\ IsFiniteSet(upTo(a)) /\ upTo(a) # {}
                   /\ Cardinality(upTo(a)) \in Nat /\ Cardinality(upTo(a)) <= N
  BY FS_Subset, FS_CardinalityType DEF UpTo
<1>3. \A a \in S : Cardinality(upTo(a)) \in 1..N
  <2>1. \A a \in S : Cardinality(upTo(a)) # 0
    BY <1>2, FS_EmptySet
  <2> SUFFICES ASSUME NEW a \in S PROVE Cardinality(upTo(a)) \in 1..N
    OBVIOUS
  <2>2. /\ Cardinality(upTo(a)) \in Nat /\ Cardinality(upTo(a)) <= N
        /\ Cardinality(upTo(a)) # 0
    BY <1>2, <2>1
  <2> HIDE DEF N, upTo
  <2>3. QED
    BY <1>1, <2>2
<1>4. ASSUME NEW a \in S, NEW b \in S, <<a, b>> \in R
      PROVE  Cardinality(upTo(a)) < Cardinality(upTo(b))
  <2>1. a # b /\ ~ (<<b, a>> \in R)
    BY <1>0, <1>4
  <2>2. upTo(a) \subseteq upTo(b) /\ b \in upTo(b) /\ b \notin upTo(a)
    BY <1>0, <1>4, <2>1 DEF UpTo
  <2>3. /\ Cardinality(upTo(a)) <= Cardinality(upTo(b))
        /\ Cardinality(upTo(a)) # Cardinality(upTo(b))
    BY <1>2, <2>2, FS_Subset
  <2>4. QED
    BY <1>2, <2>3
<1>5. rank \in [S -> 1..N] /\ \A a \in S : rank[a] = Cardinality(upTo(a))
  BY <1>3
<1> HIDE DEF upTo, rank
<1>6. ASSUME NEW a \in S, NEW b \in S, rank[a] = rank[b] PROVE a = b
  <2>1. rank[a] \in Int /\ ~ (rank[a] < rank[b]) /\ ~ (rank[b] < rank[a])
    BY <1>1, <1>5, <1>6
  <2>2. <<a, b>> \notin R /\ <<b, a>> \notin R
    BY <1>4, <1>5, <2>1
  <2>3. QED
    BY <1>0, <2>2
<1>7. rank \in Injection(S, 1..N)
  BY <1>5, <1>6 DEF Injection, IsInjective
<1>8. rank \in Surjection(S, 1..N)
  <2>1. IsFiniteSet(1..N) /\ Cardinality(1..N) = N
    BY <1>1, FS_Interval
  <2>2. QED
    BY <1>7, <2>1, FS_Injection
<1>9. \A n \in 1..N : \E a \in S : rank[a] = n
  BY <1>8 DEF Surjection
<1>10. QED
  BY <1>1, <1>3, <1>4, <1>5, <1>6, <1>9 DEF upTo

LEMMA EachPlaceIsTaken ==
    ASSUME NEW S, IsFiniteSet(S), NEW R, TotalOrder(R, S), NEW n \in 1..Cardinality(S)
    PROVE  \E a \in S : Cardinality(UpTo(S, R, a)) = n
BY PlacesAreRanks

\* Elements that stand at the place of their number are in order.
LEMMA RankedLists ==
    ASSUME NEW S, IsFiniteSet(S), NEW R, TotalOrder(R, S), NEW f,
           f \in [1..Cardinality(S) -> S],
           \A n \in 1..Cardinality(S) : Cardinality(UpTo(S, R, f[n])) = n
    PROVE  Lists(f, S, R)
<1> DEFINE N == Cardinality(S)
           rank(a) == Cardinality(UpTo(S, R, a))
<1>1. /\ N \in Nat /\ \A a \in S : rank(a) \in 1..N
      /\ \A a, b \in S : rank(a) = rank(b) => a = b
      /\ \A a, b \in S : <<a, b>> \in R => rank(a) < rank(b)
  BY PlacesAreRanks
<1> HIDE DEF N, rank
<1>2. \A n \in 1..N : f[n] \in S /\ rank(f[n]) = n
  BY DEF N, rank
<1>3. ASSUME NEW i \in 1..N, NEW j \in 1..N, i < j PROVE <<f[i], f[j]>> \in R
  <2>1. ~ (rank(f[j]) < rank(f[i])) /\ f[i] # f[j]
    BY <1>1, <1>2, <1>3
  <2>2. QED
    BY <1>1, <1>2, <2>1 DEF TotalOrder
<1>4. \A a \in S : f[rank(a)] = a /\ rank(a) \in 1..N
  BY <1>1, <1>2
<1>5. QED
  BY <1>3, <1>4 DEF Lists, N

\* A finite set of numbers has its numbers in increasing order: the one at a place
\* has that many up to it.
Ascending(S) ==
  [n \in 1..Cardinality(S) |-> CHOOSE a \in S : Cardinality({b \in S : b <= a}) = n]

LEMMA AscendingLists ==
    ASSUME NEW S \in SUBSET Int, IsFiniteSet(S)
    PROVE  /\ Cardinality(S) \in Nat /\ Ascending(S) \in [1..Cardinality(S) -> S]
           /\ \A i, j \in 1..Cardinality(S) : i < j => Ascending(S)[i] < Ascending(S)[j]
           /\ \A a \in S : \E i \in 1..Cardinality(S) : Ascending(S)[i] = a
<1>1. PICK R : \A a, b \in S : <<a, b>> \in R <=> a < b
  <2> DEFINE Q == {p \in S \X S : p[1] < p[2]}
  <2>1. \A a, b \in S : <<a, b>> \in Q <=> a < b
    OBVIOUS
  <2>2. QED
    BY <2>1
<1>2. TotalOrder(R, S)
  BY <1>1 DEF TotalOrder
<1>3. ASSUME NEW a \in S PROVE UpTo(S, R, a) = {b \in S : b <= a}
  <2>1. \A b \in S : (b = a \/ <<b, a>> \in R) <=> b <= a
    BY <1>1
  <2>2. QED
    BY <2>1 DEF UpTo
<1>a. ASSUME NEW n \in 1..Cardinality(S)
      PROVE  \E a \in S : Cardinality({b \in S : b <= a}) = n
  <2>1. PICK a \in S : Cardinality(UpTo(S, R, a)) = n
    BY <1>2, EachPlaceIsTaken
  <2>2. QED
    BY <1>3, <2>1
<1>b. \A n \in 1..Cardinality(S) :
        /\ Ascending(S)[n] \in S
        /\ Cardinality({b \in S : b <= Ascending(S)[n]}) = n
  BY <1>a DEF Ascending
<1>c. Ascending(S) \in [1..Cardinality(S) -> S]
  BY <1>b DEF Ascending
<1>4. Lists(Ascending(S), S, R)
  BY <1>2, <1>3, <1>b, <1>c, RankedLists
<1>5. /\ Ascending(S) \in [1..Cardinality(S) -> S]
      /\ \A i \in 1..Cardinality(S) : Ascending(S)[i] \in S
  BY <1>4 DEF Lists
<1>6. \A i, j \in 1..Cardinality(S) : i < j => Ascending(S)[i] < Ascending(S)[j]
  BY <1>1, <1>4, <1>5 DEF Lists
<1>7. QED
  BY <1>4, <1>5, <1>6, FS_CardinalityType DEF Lists

\* A finite set of numbers that is not empty has a greatest one and a least one.
LEMMA Extremes ==
    ASSUME NEW S \in SUBSET Int, IsFiniteSet(S), S # {}
    PROVE  /\ Max(S) \in S /\ \A a \in S : a <= Max(S)
           /\ Min(S) \in S /\ \A a \in S : Min(S) <= a
<1> DEFINE N == Cardinality(S)
<1>1. N \in Nat /\ N # 0
  BY FS_CardinalityType, FS_EmptySet
<1>2. PICK f \in [1..N -> S] : /\ \A i, j \in 1..N : i < j => f[i] < f[j]
                               /\ \A a \in S : \E i \in 1..N : f[i] = a
  BY AscendingLists
<1>3. 1 \in 1..N /\ N \in 1..N
  BY <1>1
<1> HIDE DEF N
<1>4. \A a \in S : f[1] <= a /\ a <= f[N]
  <2> SUFFICES ASSUME NEW i \in 1..N PROVE f[1] <= f[i] /\ f[i] <= f[N]
    BY <1>2
  <2>1. f[1] \in Int /\ f[i] \in Int /\ f[N] \in Int
    BY <1>2, <1>3
  <2>2. (i = 1 \/ 1 < i) /\ (i = N \/ i < N)
    BY <1>1
  <2>3. QED
    BY <1>2, <1>3, <2>1, <2>2
<1>5. /\ f[1] \in S /\ f[N] \in S /\ \A a \in S : f[1] <= a
      /\ \A a \in S : f[N] >= a
  BY <1>2, <1>3, <1>4
<1>6. Max(S) \in S /\ \A a \in S : Max(S) >= a
  BY <1>5 DEF Max
<1>7. Min(S) \in S /\ \A a \in S : Min(S) <= a
  BY <1>5 DEF Min
<1>8. QED
  BY <1>6, <1>7

\* The smaller and the greater of two numbers.
LEMMA OfTwo ==
    ASSUME NEW m \in Int, NEW n \in Int
    PROVE  /\ Max({m, n}) \in Int /\ Max({m, n}) = IF m <= n THEN n ELSE m
           /\ Min({m, n}) \in Int /\ Min({m, n}) = IF m <= n THEN m ELSE n
<1>1. IsFiniteSet({m, n})
  <2>1. IsFiniteSet({m} \cup {n})
    BY FS_Singleton, FS_AddElement
  <2>2. {m} \cup {n} = {m, n}
    OBVIOUS
  <2>3. QED
    BY <2>1, <2>2
<1>2. /\ Max({m, n}) \in {m, n} /\ \A a \in {m, n} : a <= Max({m, n})
      /\ Min({m, n}) \in {m, n} /\ \A a \in {m, n} : Min({m, n}) <= a
  BY <1>1, Extremes
<1>3. QED
  BY <1>2

LEMMA GreaterOfTwo ==
    ASSUME NEW m \in Int, NEW n \in Int
    PROVE  Max({m, n}) \in Int /\ Max({m, n}) = IF m <= n THEN n ELSE m
BY OfTwo

LEMMA SmallerOfTwo ==
    ASSUME NEW m \in Int, NEW n \in Int
    PROVE  Min({m, n}) \in Int /\ Min({m, n}) = IF m <= n THEN m ELSE n
BY OfTwo

\* Some of the numbers up to n.
LEMMA FiniteBelow ==
    ASSUME NEW n \in Nat, NEW S \in SUBSET (1..n)
    PROVE  IsFiniteSet(S) /\ S \in SUBSET Int
<1>1. IsFiniteSet(1..n)
  BY FS_Interval
<1>2. IsFiniteSet(S)
  BY <1>1, FS_Subset
<1>3. QED
  BY <1>2

\* What a function with a finite domain takes on is finite.
LEMMA FiniteImage ==
    ASSUME NEW f, IsFiniteSet(DOMAIN f)
    PROVE  IsFiniteSet({f[a] : a \in DOMAIN f})
<1> DEFINE g == [a \in DOMAIN f |-> f[a]]
           T == {f[a] : a \in DOMAIN f}
<1>1. g \in Surjection(DOMAIN f, T)
  BY DEF Surjection
<1>2. QED
  BY <1>1, FS_Surjection

\* A finite set is listed by a sequence as long as it has elements.
LEMMA ListOfSet ==
    ASSUME NEW S, IsFiniteSet(S)
    PROVE  /\ SetToSeq(S) \in Seq(S) /\ Len(SetToSeq(S)) = Cardinality(S)
           /\ Cardinality(S) \in Nat
<1>1. Cardinality(S) \in Nat /\ ExistsBijection(1..Cardinality(S), S)
  BY FS_CardinalityType
<1>2. \E f \in [1..Cardinality(S) -> S] : IsInjective(f)
  BY <1>1 DEF ExistsBijection, Bijection, Injection
<1>3. SetToSeq(S) \in [1..Cardinality(S) -> S]
  BY <1>2 DEF SetToSeq
<1>4. QED
  BY <1>1, <1>3

\* The keys given later are none of those given before.
LEMMA LaterKeys ==
    ASSUME NEW m \in Nat, NEW n \in Nat
    PROVE  (m <= n => 1..m \subseteq 1..n) /\ \A k \in m + 1..n : k \notin 1..m
OBVIOUS

\* What holds of none, and of one more than what it holds of, holds up to any number.
LEMMA UpTowards ==
    ASSUME NEW N \in Nat, NEW G, 0 \in G, \A n \in 0..N - 1 : n \in G => n + 1 \in G
    PROVE  \A n \in 0..N : n \in G
<1> DEFINE bad == {n \in 0..N : n \notin G}
<1> SUFFICES ASSUME bad # {} PROVE FALSE
  OBVIOUS
<1>1. bad \in SUBSET Int /\ IsFiniteSet(bad)
  <2>1. IsFiniteSet(0..N)
    BY FS_Interval
  <2>2. QED
    BY <2>1, FS_Subset
<1>2. Min(bad) \in bad /\ \A a \in bad : Min(bad) <= a
  <2> HIDE DEF bad
  <2>1. QED
    BY <1>1, Extremes
<1> DEFINE m == Min(bad)
<1>3. m \in 0..N /\ m \notin G
  BY <1>2
<1> HIDE DEF m
<1>4. m # 0 /\ m - 1 \in 0..N - 1 /\ m - 1 < m /\ (m - 1) + 1 = m
  BY <1>3
<1>5. m - 1 \in G
  <2>1. m - 1 \notin bad
    BY <1>2, <1>3, <1>4 DEF m
  <2>2. QED
    BY <1>4, <2>1
<1>6. QED
  BY <1>3, <1>4, <1>5
=============================================================================
