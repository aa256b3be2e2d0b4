--------------------------- MODULE PlacementProofs ---------------------------
(***************************************************************************)
(* Theorems about the operators that choose replica sets. Sorting a finite *)
(* set of objects by their addresses visits every object exactly once, by  *)
(* increasing address; distances are totally ordered, and with the order   *)
(* of enumeration they leave exactly one choice; a well spread set is not  *)
(* passed over for one that is not.                                        *)
(***************************************************************************)
EXTENDS Placement, AddressOrder, Sequences, FiniteSetTheorems, TLAPS

------------------------------------------------------------------------------
(* The order of addresses.                                                  *)

\* Objects with different addresses have different ranks below the size of the
\* set: the lower one is counted in the rank of the higher one.
LEMMA RankInjection ==
  ASSUME NEW S, IsFiniteSet(S), NEW addr,
         \A d \in S : addr[d] \in Nat,
         \A d, e \in S : d # e => addr[d] # addr[e]
  PROVE  [d \in S |-> Rank(addr, S, d)] \in Injection(S, 0..(Cardinality(S) - 1))
<1> DEFINE Below(d) == {e \in S : addr[e] < addr[d]}
<1>1. Cardinality(S) \in Nat
  BY FS_CardinalityType
<1>2. ASSUME NEW d \in S
      PROVE  IsFiniteSet(Below(d)) /\ Cardinality(Below(d)) \in Nat
  <2>1. Below(d) \in SUBSET S
    OBVIOUS
  <2>2. IsFiniteSet(Below(d))
    BY <2>1, FS_Subset
  <2> QED
    BY <2>2, FS_CardinalityType
<1>3. ASSUME NEW d \in S
      PROVE  Cardinality(Below(d)) < Cardinality(S)
  <2>1. d \notin Below(d)
    OBVIOUS
  <2>2. /\ IsFiniteSet(Below(d) \cup {d})
        /\ Cardinality(Below(d) \cup {d}) = Cardinality(Below(d)) + 1
    BY <1>2, <2>1, FS_AddElement
  <2>3. Below(d) \cup {d} \in SUBSET S
    OBVIOUS
  <2>4. Cardinality(Below(d) \cup {d}) <= Cardinality(S)
    BY <2>3, FS_Subset
  <2> HIDE DEF Below
  <2> QED
    BY <1>1, <1>2, <2>2, <2>4
<1>4. ASSUME NEW d \in S, NEW e \in S, addr[d] < addr[e]
      PROVE  Cardinality(Below(d)) < Cardinality(Below(e))
  <2>1. d \notin Below(d)
    OBVIOUS
  <2>2. /\ IsFiniteSet(Below(d) \cup {d})
        /\ Cardinality(Below(d) \cup {d}) = Cardinality(Below(d)) + 1
    BY <1>2, <2>1, FS_AddElement
  <2>3. Below(d) \cup {d} \in SUBSET Below(e)
    BY <1>4
  <2>4. Cardinality(Below(d) \cup {d}) <= Cardinality(Below(e))
    BY <1>2, <2>3, FS_Subset
  <2> HIDE DEF Below
  <2> QED
    BY <1>2, <2>2, <2>4
<1>5. \A d \in S : Rank(addr, S, d) = Cardinality(Below(d))
  BY DEF Rank
<1> HIDE DEF Below
<1>6. \A d \in S : Rank(addr, S, d) \in 0..(Cardinality(S) - 1)
  BY <1>1, <1>2, <1>3, <1>5
<1>7. ASSUME NEW d \in S, NEW e \in S, Rank(addr, S, d) = Rank(addr, S, e)
      PROVE  d = e
  <2>1. addr[d] \in Nat /\ addr[e] \in Nat
    OBVIOUS
  <2>2. ~ (addr[d] < addr[e]) /\ ~ (addr[e] < addr[d])
    BY <1>2, <1>4, <1>5, <1>7
  <2> QED
    BY <2>1, <2>2
<1> QED
  BY <1>6, <1>7 DEF Injection, IsInjective

\* Every place in the order is some object's: InOrder lists objects of S.
THEOREM InOrderType ==
  ASSUME NEW S, IsFiniteSet(S), NEW addr,
         \A d \in S : addr[d] \in Nat,
         \A d, e \in S : d # e => addr[d] # addr[e]
  PROVE  /\ InOrder(addr, S) \in [1..Cardinality(S) -> S]
         /\ \A i \in 1..Cardinality(S) : Rank(addr, S, InOrder(addr, S)[i]) = i - 1
<1> DEFINE n == Cardinality(S)
           rank == [d \in S |-> Rank(addr, S, d)]
<1>1. n \in Nat
  BY FS_CardinalityType
<1>2. rank \in Injection(S, 0..(n - 1))
  BY RankInjection
<1>3. IsFiniteSet(0..(n - 1)) /\ Cardinality(0..(n - 1)) = n
  BY <1>1, FS_Interval
<1>4. rank \in Surjection(S, 0..(n - 1))
  BY <1>2, <1>3, FS_Injection
<1>5. ASSUME NEW i \in 1..n
      PROVE  \E d \in S : Rank(addr, S, d) = i - 1
  <2>1. i - 1 \in 0..(n - 1)
    BY <1>1
  <2> QED
    BY <1>4, <2>1 DEF Surjection
<1>6. ASSUME NEW i \in 1..n
      PROVE  /\ InOrder(addr, S)[i] \in S
             /\ Rank(addr, S, InOrder(addr, S)[i]) = i - 1
  <2>1. InOrder(addr, S)[i] = CHOOSE d \in S : Rank(addr, S, d) = i - 1
    BY DEF InOrder
  <2> QED
    BY <1>5, <2>1
<1> QED
  BY <1>6 DEF InOrder

COROLLARY InOrderSeq ==
  ASSUME NEW S, IsFiniteSet(S), NEW addr,
         \A d \in S : addr[d] \in Nat,
         \A d, e \in S : d # e => addr[d] # addr[e]
  PROVE  InOrder(addr, S) \in Seq(S) /\ Len(InOrder(addr, S)) = Cardinality(S)
<1>1. Cardinality(S) \in Nat
  BY FS_CardinalityType
<1>2. InOrder(addr, S) \in [1..Cardinality(S) -> S]
  BY InOrderType
<1>3. \A n \in Nat : \A f \in [1..n -> S] : f \in Seq(S) /\ Len(f) = n
  OBVIOUS
<1> QED
  BY <1>1, <1>2, <1>3

\* Every object has a place in the order, and only one.
LEMMA InOrderBijection ==
  ASSUME NEW S, IsFiniteSet(S), NEW addr,
         \A d \in S : addr[d] \in Nat,
         \A d, e \in S : d # e => addr[d] # addr[e]
  PROVE  InOrder(addr, S) \in Bijection(1..Cardinality(S), S)
<1> DEFINE n == Cardinality(S)
           order == InOrder(addr, S)
<1>1. n \in Nat
  BY FS_CardinalityType
<1>2. order \in [1..n -> S] /\ \A i \in 1..n : Rank(addr, S, order[i]) = i - 1
  BY InOrderType
<1> HIDE DEF order
<1>3. \A i, j \in 1..n : order[i] = order[j] => i = j
  BY <1>1, <1>2
<1>4. order \in Injection(1..n, S)
  BY <1>2, <1>3 DEF Injection, IsInjective
<1>5. IsFiniteSet(1..n) /\ Cardinality(1..n) = n
  BY <1>1, FS_Interval
<1>6. order \in Surjection(1..n, S)
  BY <1>4, <1>5, FS_Injection
<1> QED
  BY <1>4, <1>6 DEF Bijection, order

\* The order is by increasing address.
LEMMA RankMonotone ==
  ASSUME NEW S, IsFiniteSet(S), NEW addr,
         \A d \in S : addr[d] \in Nat,
         NEW d \in S, NEW e \in S, addr[d] <= addr[e]
  PROVE  Rank(addr, S, d) <= Rank(addr, S, e)
<1> DEFINE Below(x) == {y \in S : addr[y] < addr[x]}
<1>1. Below(d) \in SUBSET Below(e)
  OBVIOUS
<1>2. Below(e) \in SUBSET S
  OBVIOUS
<1> HIDE DEF Below
<1>3. IsFiniteSet(Below(e))
  BY <1>2, FS_Subset
<1>4. Cardinality(Below(d)) <= Cardinality(Below(e))
  BY <1>1, <1>3, FS_Subset
<1> QED
  BY <1>4 DEF Rank, Below

LEMMA InOrderIncreasing ==
  ASSUME NEW S, IsFiniteSet(S), NEW addr,
         \A d \in S : addr[d] \in Nat,
         \A d, e \in S : d # e => addr[d] # addr[e],
         NEW i \in 1..Cardinality(S), NEW j \in 1..Cardinality(S), i < j
  PROVE  addr[InOrder(addr, S)[i]] < addr[InOrder(addr, S)[j]]
<1> DEFINE d == InOrder(addr, S)[i]
           e == InOrder(addr, S)[j]
<1>1. Cardinality(S) \in Nat
  BY FS_CardinalityType
<1>2. d \in S /\ e \in S /\ Rank(addr, S, d) = i - 1 /\ Rank(addr, S, e) = j - 1
  BY <1>1, InOrderType
<1> HIDE DEF d, e
<1>3. addr[e] <= addr[d] => Rank(addr, S, e) <= Rank(addr, S, d)
  BY <1>2, RankMonotone
<1>4. addr[d] < addr[e]
  BY <1>1, <1>2, <1>3
<1> QED
  BY <1>4 DEF d, e

------------------------------------------------------------------------------
(* Visiting a set of numbers in increasing order begins with the least one. *)

LEMMA LeastNumber ==
  ASSUME NEW S \in SUBSET Nat, S # {}
  PROVE  \E m \in S : \A n \in S : m <= n
<1>1. PICK k \in S : TRUE
  OBVIOUS
<1> DEFINE T == S \cap (0..k)
           number == [n \in T |-> n]
           m == InOrder(number, T)[1]
<1>2. IsFiniteSet(T) /\ k \in T
  <2>1. T \in SUBSET (0..k) /\ k \in T
    BY <1>1
  <2>2. IsFiniteSet(0..k)
    BY FS_Interval
  <2> QED
    BY <2>1, <2>2, FS_Subset
<1>3. \A n \in T : number[n] = n /\ n \in Nat
  OBVIOUS
<1> HIDE DEF number
<1>4. /\ \A n \in T : number[n] \in Nat
      /\ \A n, o \in T : n # o => number[n] # number[o]
  BY <1>3
<1> HIDE DEF T
<1>5. Cardinality(T) \in Nat /\ Cardinality(T) # 0
  BY <1>2, FS_CardinalityType, FS_EmptySet
<1>6. m \in T /\ Rank(number, T, m) = 0
  <2>1. 1 \in 1..Cardinality(T)
    BY <1>5
  <2>2. /\ InOrder(number, T) \in [1..Cardinality(T) -> T]
        /\ \A i \in 1..Cardinality(T) : Rank(number, T, InOrder(number, T)[i]) = i - 1
    BY <1>2, <1>4, InOrderType
  <2>3. Rank(number, T, m) = 1 - 1
    BY <2>1, <2>2
  <2> QED
    BY <2>1, <2>2, <2>3
<1> HIDE DEF m
<1>7. {n \in T : number[n] < number[m]} = {}
  <2>1. {n \in T : number[n] < number[m]} \in SUBSET T
    OBVIOUS
  <2>2. IsFiniteSet({n \in T : number[n] < number[m]})
    BY <1>2, <2>1, FS_Subset
  <2> QED
    BY <1>6, <2>2, FS_EmptySet DEF Rank
<1>8. \A n \in T : m <= n
  BY <1>3, <1>6, <1>7
<1> QED
  BY <1>1, <1>6, <1>8 DEF T

LEMMA GreatestNumber ==
  ASSUME NEW S \in SUBSET Nat, S # {}, NEW bound \in Nat, \A n \in S : n <= bound
  PROVE  \E m \in S : \A n \in S : n <= m
<1> DEFINE Distances == {bound - n : n \in S}
<1>1. Distances \in SUBSET Nat /\ Distances # {}
  <2>1. \A n \in S : bound - n \in Nat
    OBVIOUS
  <2> QED
    BY <2>1
<1>2. PICK least \in Distances : \A k \in Distances : least <= k
  BY <1>1, LeastNumber
<1>3. PICK m \in S : least = bound - m
  BY <1>2
<1>4. \A n \in S : bound - m <= bound - n
  BY <1>2, <1>3
<1>5. \A n \in S : n <= m
  BY <1>4
<1> QED
  BY <1>5
------------------------------------------------------------------------------
(* Distances: six numbers, ordered by the first that differs.               *)

Distances == [1..6 -> Nat]

LEMMA PairsCounted ==
  ASSUME NEW S, IsFiniteSet(S), NEW P \in SUBSET kSubset(2, S)
  PROVE  Cardinality(P) \in Nat
<1>1. P \in SUBSET (SUBSET S)
  BY DEF kSubset
<1>2. IsFiniteSet(SUBSET S)
  BY FS_SUBSET
<1> QED
  BY <1>1, <1>2, FS_Subset, FS_CardinalityType

LEMMA ReliefCounted ==
  ASSUME NEW D, NEW S, IsFiniteSet(S), NEW f
  PROVE  PressureRelief(D, S, f) \in Nat
<1> DEFINE locations == {f[d] : d \in S}
           at == [d \in S |-> f[d]]
           pairs == {lk \in locations \X (1..Cardinality(S)) :
                       /\ lk[2] <= Located(S, f, lk[1])
                       /\ lk[2] * LoadLimit(D) <= Located(D, f, lk[1])}
<1>1. at \in Surjection(S, locations)
  BY DEF Surjection
<1>2. IsFiniteSet(locations)
  BY <1>1, FS_Surjection
<1>3. IsFiniteSet(1..Cardinality(S))
  BY FS_CardinalityType, FS_Interval
<1>4. IsFiniteSet(locations \X (1..Cardinality(S)))
  BY <1>2, <1>3, FS_Product
<1>5. pairs \in SUBSET (locations \X (1..Cardinality(S)))
  OBVIOUS
<1>6. Cardinality(pairs) \in Nat
  BY <1>4, <1>5, FS_Subset, FS_CardinalityType
<1> QED
  BY <1>6 DEF PressureRelief

LEMMA DistanceType ==
  ASSUME NEW t, NEW D, NEW S, IsFiniteSet(S)
  PROVE  distanceFunction(t, D, S) \in Distances
<1> DEFINE d == distanceFunction(t, D, S)
<1>1. \A f : DifferingPairs(S, f) \in SUBSET kSubset(2, S)
  BY DEF DifferingPairs
<1>2. DifferingHostsStores(t, S) \in SUBSET kSubset(2, S)
  BY <1>1 DEF DifferingHostsStores
<1>3. /\ Cardinality(DifferingHostsStores(t, S)) \in Nat
      /\ Cardinality(DifferingPairs(S, RackOf(t))) \in Nat
      /\ Cardinality(DifferingPairs(S, DataCenterOf(t))) \in Nat
  BY <1>1, <1>2, PairsCounted
<1>4. /\ PressureRelief(D, S, RackOf(t)) \in Nat
      /\ PressureRelief(D, S, DataCenterOf(t)) \in Nat
      /\ PressureRelief(D, S, t.host) \in Nat
      /\ PressureRelief(D, S, t.store) \in Nat
  BY ReliefCounted
<1>5. \A a, b, c, x, y, z \in Nat : <<a, b, c, x, y, z>> \in [1..6 -> Nat]
  OBVIOUS
<1>6. \A x, y \in Nat : x + y \in Nat
  OBVIOUS
<1> QED
  BY <1>3, <1>4, <1>5, <1>6 DEF distanceFunction, Distances

LEMMA DistanceTotal ==
  ASSUME NEW a \in Distances, NEW b \in Distances
  PROVE  a = b \/ DistanceLess(a, b) \/ DistanceLess(b, a)
<1> SUFFICES ASSUME a # b
             PROVE  DistanceLess(a, b) \/ DistanceLess(b, a)
  OBVIOUS
<1> DEFINE Different == {i \in 1..6 : a[i] # b[i]}
<1>1. Different # {} /\ Different \in SUBSET Nat
  BY DEF Distances
<1>2. PICK i \in Different : \A j \in Different : i <= j
  BY <1>1, LeastNumber
<1>3. i \in 1..6 /\ (a[i] < b[i] \/ b[i] < a[i])
  BY DEF Distances
<1>4. \A j \in 1..(i - 1) : a[j] = b[j]
  <2>1. \A j \in 1..(i - 1) : j \in 1..6 /\ j < i
    BY <1>3
  <2> QED
    BY <1>2, <1>3, <2>1
<1> QED
  BY <1>3, <1>4 DEF DistanceLess

LEMMA DistanceTransitive ==
  ASSUME NEW a \in Distances, NEW b \in Distances, NEW c \in Distances,
         DistanceLess(a, b), DistanceLess(b, c)
  PROVE  DistanceLess(a, c)
<1>1. \A i \in 1..6 : a[i] \in Nat /\ b[i] \in Nat /\ c[i] \in Nat
  BY DEF Distances
<1>2. PICK i \in 1..6 : a[i] < b[i] /\ \A j \in 1..(i - 1) : a[j] = b[j]
  BY DEF DistanceLess
<1>3. PICK k \in 1..6 : b[k] < c[k] /\ \A j \in 1..(k - 1) : b[j] = c[j]
  BY DEF DistanceLess
<1>4. CASE i <= k
  <2>1. a[i] < c[i]
    BY <1>1, <1>2, <1>3, <1>4
  <2>2. \A j \in 1..(i - 1) : a[j] = c[j]
    BY <1>2, <1>3, <1>4
  <2> QED
    BY <2>1, <2>2 DEF DistanceLess
<1>5. CASE k < i
  <2>1. a[k] < c[k]
    BY <1>1, <1>2, <1>3, <1>5
  <2>2. \A j \in 1..(k - 1) : a[j] = c[j]
    BY <1>2, <1>3, <1>5
  <2> QED
    BY <2>1, <2>2 DEF DistanceLess
<1> QED
  BY <1>4, <1>5

LEMMA DistanceIrreflexive ==
  ASSUME NEW a \in Distances
  PROVE  ~ DistanceLess(a, a)
BY DEF Distances, DistanceLess

\* What is at least the best so far is at least whatever that was at least.
LEMMA AtLeastTransitive ==
  ASSUME NEW a \in Distances, NEW b \in Distances, NEW c \in Distances,
         DistanceAtLeast(a, b), DistanceAtLeast(b, c)
  PROVE  DistanceAtLeast(a, c)
<1>1. a = b \/ DistanceLess(b, a)
  BY DistanceTotal DEF DistanceAtLeast
<1>2. ASSUME DistanceLess(a, c) PROVE FALSE
  <2>1. DistanceLess(b, c)
    BY <1>1, <1>2, DistanceTransitive
  <2> QED
    BY <2>1 DEF DistanceAtLeast
<1> QED
  BY <1>2 DEF DistanceAtLeast

------------------------------------------------------------------------------
(* What selectReplicaSet chooses is determined.                             *)

\* Enumeration by addresses is a strict total order of sets.
LEMMA EnumerationTotal ==
  ASSUME NEW addr, NEW D, \A d \in D : addr[d] \in Nat,
         \A d, e \in D : d # e => addr[d] # addr[e],
         NEW S \in SUBSET D, NEW T \in SUBSET D, S # T
  PROVE  EnumeratedBefore(addr, S, T) \/ EnumeratedBefore(addr, T, S)
<1> DEFINE Single == (S \ T) \cup (T \ S)
           numbers == {addr[d] : d \in Single}
<1>1. numbers \in SUBSET Nat /\ numbers # {}
  OBVIOUS
<1>2. PICK m \in numbers : \A n \in numbers : m <= n
  BY <1>1, LeastNumber
<1>3. PICK d \in Single : m = addr[d]
  BY <1>2
<1>4. ASSUME NEW e \in Single, e # d
      PROVE  addr[d] < addr[e]
  <2>1. addr[d] <= addr[e] /\ addr[d] # addr[e] /\ addr[d] \in Nat /\ addr[e] \in Nat
    BY <1>2, <1>3, <1>4
  <2> QED
    BY <2>1
<1>5. CASE d \in S \ T
  BY <1>4, <1>5 DEF EnumeratedBefore
<1>6. CASE d \in T \ S
  BY <1>4, <1>6 DEF EnumeratedBefore
<1> QED
  BY <1>3, <1>5, <1>6

\* Two sets are not each enumerated before the other: compare the witnesses.
LEMMA EnumerationAsymmetric ==
  ASSUME NEW addr, NEW D, \A d \in D : addr[d] \in Nat,
         NEW S \in SUBSET D, NEW T \in SUBSET D, EnumeratedBefore(addr, S, T)
  PROVE  ~ EnumeratedBefore(addr, T, S)
<1>1. PICK d \in S \ T : \A e \in T \ S : addr[d] < addr[e]
  BY DEF EnumeratedBefore
<1>2. ASSUME NEW e \in T \ S, \A x \in S \ T : addr[e] < addr[x]
      PROVE  FALSE
  <2>1. addr[d] < addr[e] /\ addr[e] < addr[d] /\ addr[d] \in Nat /\ addr[e] \in Nat
    BY <1>1, <1>2
  <2> QED
    BY <2>1
<1> QED
  BY <1>2 DEF EnumeratedBefore

\* Of the two witnesses the one with the lower address is the third.
LEMMA EnumerationTransitive ==
  ASSUME NEW addr, NEW D, \A d \in D : addr[d] \in Nat,
         \A d, e \in D : d # e => addr[d] # addr[e],
         NEW R \in SUBSET D, NEW S \in SUBSET D, NEW T \in SUBSET D,
         EnumeratedBefore(addr, R, S), EnumeratedBefore(addr, S, T)
  PROVE  EnumeratedBefore(addr, R, T)
<1>1. PICK d \in R \ S : \A x \in S \ R : addr[d] < addr[x]
  BY DEF EnumeratedBefore
<1>2. PICK e \in S \ T : \A x \in T \ S : addr[e] < addr[x]
  BY DEF EnumeratedBefore
<1>3. addr[d] \in Nat /\ addr[e] \in Nat /\ addr[d] # addr[e]
  BY <1>1, <1>2
<1>4. CASE addr[d] < addr[e]
  <2>1. d \in R \ T
    BY <1>1, <1>2, <1>3, <1>4
  <2>2. ASSUME NEW x \in T \ R
        PROVE  addr[d] < addr[x]
    <3>1. addr[x] \in Nat /\ (addr[d] < addr[x] \/ addr[e] < addr[x])
      BY <1>1, <1>2, <2>2
    <3> QED
      BY <1>3, <1>4, <3>1
  <2> QED
    BY <2>1, <2>2 DEF EnumeratedBefore
<1>5. CASE addr[e] < addr[d]
  <2>1. e \in R \ T
    BY <1>1, <1>2, <1>3, <1>5
  <2>2. ASSUME NEW x \in T \ R
        PROVE  addr[e] < addr[x]
    <3>1. addr[x] \in Nat /\ (addr[d] < addr[x] \/ addr[e] < addr[x])
      BY <1>1, <1>2, <2>2
    <3> QED
      BY <1>3, <1>5, <3>1
  <2> QED
    BY <2>1, <2>2 DEF EnumeratedBefore
<1> QED
  BY <1>3, <1>4, <1>5

LEMMA CandidatesFinite ==
  ASSUME NEW D, IsFiniteSet(D)
  PROVE  /\ IsFiniteSet(Candidates(D))
         /\ \A S \in Candidates(D) : S \in SUBSET D /\ IsFiniteSet(S)
<1>1. Candidates(D) \in SUBSET (SUBSET D)
  BY DEF Candidates, kSubset
<1>2. IsFiniteSet(SUBSET D)
  BY FS_SUBSET
<1> QED
  BY <1>1, <1>2, FS_Subset

\* As long as there are enough servers there is a candidate.
LEMMA CandidatesNotEmpty ==
  ASSUME NEW D, IsFiniteSet(D), Cardinality(D) >= ReplicationFactor,
         NEW addr, \A d \in D : addr[d] \in Nat,
         \A d, e \in D : d # e => addr[d] # addr[e]
  PROVE  Candidates(D) # {}
<1> DEFINE order == InOrder(addr, D)
           first == {order[i] : i \in 1..ReplicationFactor}
           member == [i \in 1..ReplicationFactor |-> order[i]]
<1>1. ReplicationFactor \in Nat /\ Cardinality(D) \in Nat
  BY PlacementAssumption, FS_CardinalityType
<1>2. order \in Bijection(1..Cardinality(D), D)
  BY InOrderBijection
<1> HIDE DEF order
<1>3. \A i \in 1..ReplicationFactor : i \in 1..Cardinality(D)
  BY <1>1
<1>4. /\ \A i \in 1..ReplicationFactor : order[i] \in D
      /\ \A i, j \in 1..ReplicationFactor : order[i] = order[j] => i = j
  BY <1>2, <1>3 DEF Bijection, Injection, IsInjective
<1>5. member \in Bijection(1..ReplicationFactor, first)
  BY <1>4 DEF Bijection, Injection, IsInjective, Surjection
<1>6. IsFiniteSet(1..ReplicationFactor) /\ Cardinality(1..ReplicationFactor) = ReplicationFactor
  BY <1>1, FS_Interval
<1>7. Cardinality(first) = ReplicationFactor
  BY <1>5, <1>6, FS_Bijection DEF ExistsBijection
<1>8. first \in Candidates(D)
  BY <1>4, <1>7 DEF Candidates, kSubset
<1> QED
  BY <1>8

\* IsSelected is a function of its arguments: whenever selectReplicaSet is called
\* there is exactly one set it may choose. Distance and enumeration together
\* order the candidates totally, and the one that beats most others is the one.
THEOREM ExactlyOneSelected ==
  ASSUME NEW t, NEW D, IsFiniteSet(D), Cardinality(D) >= ReplicationFactor,
         NEW addr, \A d \in D : addr[d] \in Nat,
         \A d, e \in D : d # e => addr[d] # addr[e]
  PROVE  \E S \in Candidates(D) :
           /\ IsSelected(t, addr, D, S)
           /\ \A T : IsSelected(t, addr, D, T) => T = S
<1> DEFINE C == Candidates(D)
           dist(S) == distanceFunction(t, D, S)
           Beats(S, T) == \/ DistanceLess(dist(T), dist(S))
                          \/ dist(T) = dist(S) /\ EnumeratedBefore(addr, T, S)
           beaten(S) == {T \in C : Beats(S, T)}
           counts == {Cardinality(beaten(S)) : S \in C}
<1>1. /\ IsFiniteSet(C) /\ C # {}
      /\ \A S \in C : S \in SUBSET D /\ IsFiniteSet(S)
  BY CandidatesFinite, CandidatesNotEmpty
<1>2. \A S \in C : dist(S) \in Distances
  BY <1>1, DistanceType
<1>3. \A S : IsSelected(t, addr, D, S) <=> S \in C /\ \A T \in C : T = S \/ Beats(S, T)
  <2>1. \A S \in C : ~ DistanceLess(dist(S), dist(S))
    BY <1>2, DistanceIrreflexive
  <2> QED
    BY <2>1 DEF IsSelected
<1> HIDE DEF C, dist
<1>4. ASSUME NEW S \in C, NEW T \in C, S # T
      PROVE  Beats(S, T) \/ Beats(T, S)
  <2>1. dist(S) = dist(T) \/ DistanceLess(dist(S), dist(T)) \/ DistanceLess(dist(T), dist(S))
    BY <1>2, DistanceTotal
  <2>2. EnumeratedBefore(addr, S, T) \/ EnumeratedBefore(addr, T, S)
    BY <1>1, <1>4, EnumerationTotal
  <2> QED
    BY <2>1, <2>2
<1>5. ASSUME NEW S \in C, NEW T \in C, Beats(S, T)
      PROVE  ~ Beats(T, S)
  <2>1. ~ DistanceLess(dist(S), dist(S)) /\ ~ DistanceLess(dist(T), dist(T))
    BY <1>2, DistanceIrreflexive
  <2>2. ~ (DistanceLess(dist(S), dist(T)) /\ DistanceLess(dist(T), dist(S)))
    BY <1>2, <2>1, DistanceTransitive
  <2>3. ~ (EnumeratedBefore(addr, T, S) /\ EnumeratedBefore(addr, S, T))
    BY <1>1, EnumerationAsymmetric
  <2> QED
    BY <1>5, <2>1, <2>2, <2>3
<1>6. ASSUME NEW R \in C, NEW S \in C, NEW T \in C, Beats(R, S), Beats(S, T)
      PROVE  Beats(R, T)
  <2>1. DistanceLess(dist(T), dist(S)) /\ DistanceLess(dist(S), dist(R))
          => DistanceLess(dist(T), dist(R))
    BY <1>2, DistanceTransitive
  <2>2. EnumeratedBefore(addr, T, S) /\ EnumeratedBefore(addr, S, R)
          => EnumeratedBefore(addr, T, R)
    BY <1>1, EnumerationTransitive
  <2> QED
    BY <1>6, <2>1, <2>2
<1>7. \A S \in C : ~ Beats(S, S)
  BY <1>5
<1> HIDE DEF Beats
<1>8. /\ IsFiniteSet(C) /\ Cardinality(C) \in Nat
      /\ \A S \in C : /\ IsFiniteSet(beaten(S))
                      /\ Cardinality(beaten(S)) \in Nat
                      /\ Cardinality(beaten(S)) <= Cardinality(C)
  <2>1. \A S \in C : beaten(S) \in SUBSET C
    OBVIOUS
  <2> HIDE DEF beaten
  <2> QED
    BY <1>1, <2>1, FS_Subset, FS_CardinalityType
<1>9. PICK S \in C : \A T \in C : Cardinality(beaten(T)) <= Cardinality(beaten(S))
  <2>1. counts \in SUBSET Nat /\ counts # {} /\ \A n \in counts : n <= Cardinality(C)
    BY <1>1, <1>8
  <2>2. PICK m \in counts : \A n \in counts : n <= m
    BY <1>8, <2>1, GreatestNumber
  <2> QED
    BY <2>2
<1>10. ASSUME NEW T \in C, Beats(T, S)
       PROVE  FALSE
  <2>1. beaten(S) \cup {S} \in SUBSET beaten(T)
    BY <1>6, <1>10
  <2>2. S \notin beaten(S)
    BY <1>7
  <2> HIDE DEF beaten
  <2>3. Cardinality(beaten(S) \cup {S}) = Cardinality(beaten(S)) + 1
    BY <1>8, <2>2, FS_AddElement
  <2>4. Cardinality(beaten(S) \cup {S}) <= Cardinality(beaten(T))
    BY <1>8, <2>1, FS_Subset
  <2>5. Cardinality(beaten(T)) <= Cardinality(beaten(S))
    BY <1>9
  <2> QED
    BY <1>8, <2>3, <2>4, <2>5
<1>11. IsSelected(t, addr, D, S)
  BY <1>3, <1>4, <1>10
<1>12. ASSUME NEW T, IsSelected(t, addr, D, T)
       PROVE  T = S
  BY <1>3, <1>5, <1>11, <1>12
<1> QED
  BY <1>11, <1>12 DEF C

------------------------------------------------------------------------------
(* Pairs of a candidate set.                                                *)

LEMMA PairMembers ==
  ASSUME NEW S, IsFiniteSet(S), NEW p \in kSubset(2, S)
  PROVE  \E a, b \in S : a # b /\ p = {a, b}
<1>1. p \in SUBSET S /\ Cardinality(p) = 2
  BY DEF kSubset
<1>2. IsFiniteSet(p) /\ p # {}
  BY <1>1, FS_Subset, FS_EmptySet
<1>3. PICK a \in p : TRUE
  BY <1>2
<1>4. IsFiniteSet(p \ {a}) /\ Cardinality(p \ {a}) = 1
  BY <1>1, <1>2, <1>3, FS_RemoveElement
<1>5. PICK b : p \ {a} = {b}
  BY <1>4, FS_Singleton
<1> QED
  BY <1>1, <1>3, <1>5

LEMMA PairOf ==
  ASSUME NEW S, NEW a \in S, NEW b \in S, a # b
  PROVE  {a, b} \in kSubset(2, S)
<1>1. IsFiniteSet({a}) /\ Cardinality({a}) = 1
  BY FS_Singleton
<1>2. Cardinality({a} \cup {b}) = 1 + 1
  BY <1>1, FS_AddElement
<1>3. {a} \cup {b} = {a, b}
  OBVIOUS
<1> QED
  BY <1>2, <1>3 DEF kSubset

LEMMA PairsFinite ==
  ASSUME NEW S, IsFiniteSet(S)
  PROVE  IsFiniteSet(kSubset(2, S)) /\ Cardinality(kSubset(2, S)) \in Nat
<1>1. IsFiniteSet(SUBSET S)
  BY FS_SUBSET
<1>2. kSubset(2, S) \in SUBSET (SUBSET S)
  BY DEF kSubset
<1>3. IsFiniteSet(kSubset(2, S))
  BY <1>1, <1>2, FS_Subset
<1> QED
  BY <1>3, FS_CardinalityType

\* Sets of the same size have the same number of pairs.
LEMMA AsManyPairs ==
  ASSUME NEW S, IsFiniteSet(S), NEW T, IsFiniteSet(T), Cardinality(S) = Cardinality(T)
  PROVE  Cardinality(kSubset(2, S)) = Cardinality(kSubset(2, T))
<1>1. ASSUME NEW A, IsFiniteSet(A), NEW B, IsFiniteSet(B), Cardinality(A) = Cardinality(B)
      PROVE  Cardinality(kSubset(2, A)) <= Cardinality(kSubset(2, B))
  <2>1. PICK g : g \in Bijection(A, B)
    BY <1>1, FS_SameCardinalityBij DEF ExistsBijection
  <2>2. g \in [A -> B] /\ \A a, b \in A : g[a] = g[b] => a = b
    BY <2>1 DEF Bijection, Injection, IsInjective
  <2> DEFINE image == [p \in kSubset(2, A) |-> {g[d] : d \in p}]
  <2>3. ASSUME NEW p \in kSubset(2, A)
        PROVE  {g[d] : d \in p} \in kSubset(2, B)
    <3>1. PICK a \in A, b \in A : a # b /\ p = {a, b}
      BY <1>1, PairMembers
    <3>2. {g[d] : d \in p} = {g[a], g[b]} /\ g[a] # g[b] /\ g[a] \in B /\ g[b] \in B
      BY <2>2, <3>1
    <3> QED
      BY <3>2, PairOf
  <2>4. ASSUME NEW p \in kSubset(2, A), NEW q \in kSubset(2, A),
               {g[d] : d \in p} = {g[d] : d \in q}
        PROVE  p = q
    <3>1. p \in SUBSET A /\ q \in SUBSET A
      BY DEF kSubset
    <3>2. \A d \in A : d \in p <=> g[d] \in {g[e] : e \in p}
      BY <2>2, <3>1
    <3>3. \A d \in A : d \in q <=> g[d] \in {g[e] : e \in q}
      BY <2>2, <3>1
    <3> QED
      BY <2>4, <3>1, <3>2, <3>3
  <2>5. image \in Injection(kSubset(2, A), kSubset(2, B))
    BY <2>3, <2>4 DEF Injection, IsInjective
  <2> QED
    BY <1>1, <2>5, PairsFinite, FS_Injection
<1>2. /\ Cardinality(kSubset(2, S)) <= Cardinality(kSubset(2, T))
      /\ Cardinality(kSubset(2, T)) <= Cardinality(kSubset(2, S))
  BY <1>1
<1> QED
  BY <1>2, PairsFinite

\* The hosts are acceptable if and only if the most significant field of the
\* distance is as large as it can be.
LEMMA HostsApart ==
  ASSUME NEW t, NEW S, IsFiniteSet(S)
  PROVE  /\ Cardinality(DifferingHostsStores(t, S)) <= Cardinality(kSubset(2, S))
         /\ isAcceptableHostLocality(t, S) <=>
              Cardinality(DifferingHostsStores(t, S)) = Cardinality(kSubset(2, S))
<1> DEFINE pairs == kSubset(2, S)
           differing == DifferingHostsStores(t, S)
<1>1. differing = {p \in pairs : /\ \E a, b \in p : t.host[a] # t.host[b]
                                 /\ \E a, b \in p : t.store[a] # t.store[b]}
  BY DEF DifferingHostsStores, DifferingPairs
<1>2. differing \in SUBSET pairs /\ IsFiniteSet(pairs)
  BY <1>1, PairsFinite
<1>3. /\ Cardinality(differing) <= Cardinality(pairs)
      /\ Cardinality(differing) = Cardinality(pairs) => differing = pairs
  BY <1>2, FS_Subset
<1>4. ASSUME isAcceptableHostLocality(t, S), NEW p \in pairs
      PROVE  p \in differing
  <2>1. PICK a \in S, b \in S : a # b /\ p = {a, b}
    BY PairMembers
  <2>2. t.host[a] # t.host[b] /\ t.store[a] # t.store[b]
    BY <1>4, <2>1 DEF isAcceptableHostLocality
  <2> QED
    BY <1>1, <2>1, <2>2
<1>5. ASSUME differing = pairs, NEW a \in S, NEW b \in S, a # b
      PROVE  t.host[a] # t.host[b] /\ t.store[a] # t.store[b]
  <2>1. {a, b} \in differing
    BY <1>5, PairOf
  <2> QED
    BY <1>1, <2>1
<1>6. isAcceptableHostLocality(t, S) => differing = pairs
  BY <1>2, <1>4
<1>7. differing = pairs => isAcceptableHostLocality(t, S)
  BY <1>5 DEF isAcceptableHostLocality
<1> QED
  BY <1>3, <1>6, <1>7

------------------------------------------------------------------------------
(* Relief.                                                                  *)

\* ReplicationFactor times the load limit covers all unplaced servers.
LEMMA LimitCovers ==
  ASSUME NEW D, IsFiniteSet(D)
  PROVE  /\ LoadLimit(D) \in Nat
         /\ Cardinality(D) <= ReplicationFactor * LoadLimit(D)
<1>1. \A n \in Nat : \A r \in Nat \ {0} :
        (n + r - 1) \div r \in Nat /\ n <= r * ((n + r - 1) \div r)
  OBVIOUS
<1> QED
  BY <1>1, FS_CardinalityType, PlacementAssumption DEF LoadLimit

LEMMA LocatedCounts ==
  ASSUME NEW S, IsFiniteSet(S), NEW f, NEW l
  PROVE  /\ Located(S, f, l) \in Nat /\ Located(S, f, l) <= Cardinality(S)
         /\ Located(S, f, l) = Cardinality(S) => \A d \in S : f[d] = l
<1> DEFINE there == {d \in S : f[d] = l}
<1>1. there \in SUBSET S
  OBVIOUS
<1>2. /\ IsFiniteSet(there) /\ Cardinality(there) <= Cardinality(S)
      /\ Cardinality(there) = Cardinality(S) => there = S
  BY <1>1, FS_Subset
<1>3. Cardinality(there) \in Nat
  BY <1>2, FS_CardinalityType
<1> QED
  BY <1>2, <1>3 DEF Located

\* A candidate set kept at one location takes no more relief than one in which
\* another server has replaced one of its members: if all of them could take
\* relief there, every unplaced server would be there.
LEMMA ReliefKept ==
  ASSUME NEW D, IsFiniteSet(D), NEW S \in Candidates(D), ReplicationFactor >= 2,
         NEW f, NEW l, \A d \in S : f[d] = l,
         NEW s \in S, NEW x \in D \ S
  PROVE  PressureRelief(D, S, f) <= PressureRelief(D, (S \ {s}) \cup {x}, f)
<1> DEFINE R == (S \ {s}) \cup {x}
           relieved(T) == {lk \in {f[d] : d \in T} \X (1..Cardinality(T)) :
                             /\ lk[2] <= Located(T, f, lk[1])
                             /\ lk[2] * LoadLimit(D) <= Located(D, f, lk[1])}
<1>1. S \in SUBSET D /\ Cardinality(S) = ReplicationFactor /\ IsFiniteSet(S)
  BY FS_Subset DEF Candidates, kSubset
<1>2. ReplicationFactor \in Nat
  BY PlacementAssumption
<1>3. /\ IsFiniteSet(S \ {s}) /\ Cardinality(S \ {s}) = ReplicationFactor - 1
      /\ IsFiniteSet(R) /\ Cardinality(R) = ReplicationFactor
  <2>1. IsFiniteSet(S \ {s}) /\ Cardinality(S \ {s}) = ReplicationFactor - 1
    BY <1>1, FS_RemoveElement
  <2>2. x \notin S \ {s}
    OBVIOUS
  <2>3. IsFiniteSet(R) /\ Cardinality(R) = (ReplicationFactor - 1) + 1
    BY <2>1, <2>2, FS_AddElement
  <2> QED
    BY <1>2, <2>1, <2>3
<1>4. PICK o \in S \ {s} : TRUE
  <2>1. Cardinality(S \ {s}) # 0
    BY <1>2, <1>3
  <2>2. S \ {s} # {}
    BY <2>1, FS_EmptySet
  <2> QED
    BY <2>2
<1>5. o \in R /\ f[o] = l
  BY <1>4
<1>6. ASSUME NEW lk \in relieved(S)
      PROVE  lk \in relieved(R)
  <2>1. /\ lk \in {f[d] : d \in S} \X (1..ReplicationFactor)
        /\ lk[2] <= Located(S, f, lk[1])
        /\ lk[2] * LoadLimit(D) <= Located(D, f, lk[1])
    BY <1>1
  <2>2. lk[1] = l /\ lk[2] \in 1..ReplicationFactor /\ lk = <<lk[1], lk[2]>>
    BY <2>1
  <2>3. lk \in {f[d] : d \in R} \X (1..Cardinality(R))
    BY <1>3, <1>5, <2>2
  <2>4. lk[2] <= Located(R, f, l)
    <3>1. CASE f[x] = l
      <4>1. {d \in R : f[d] = l} = R
        BY <1>1, <3>1
      <4>2. Located(R, f, l) = ReplicationFactor
        BY <1>3, <4>1 DEF Located
      <4> QED
        BY <1>2, <2>2, <4>2
    <3>2. CASE f[x] # l
      <4>1. {d \in R : f[d] = l} = S \ {s}
        BY <3>2
      <4>2. Located(R, f, l) = ReplicationFactor - 1
        BY <1>3, <4>1 DEF Located
      <4>3. lk[2] # ReplicationFactor
        <5>1. SUFFICES ASSUME lk[2] = ReplicationFactor PROVE FALSE
          OBVIOUS
        <5>2. ReplicationFactor * LoadLimit(D) <= Located(D, f, l)
          BY <2>1, <2>2, <5>1
        <5>3. /\ Located(D, f, l) \in Nat /\ Located(D, f, l) <= Cardinality(D)
              /\ Located(D, f, l) # Cardinality(D)
          BY <3>2, LocatedCounts
        <5>4. Cardinality(D) <= ReplicationFactor * LoadLimit(D) /\ LoadLimit(D) \in Nat
          BY LimitCovers
        <5>5. Cardinality(D) \in Nat
          BY FS_CardinalityType
        <5> QED
          BY <1>2, <5>2, <5>3, <5>4, <5>5
      <4> QED
        BY <1>2, <2>2, <4>2, <4>3
    <3> QED
      BY <3>1, <3>2
  <2> QED
    BY <2>1, <2>2, <2>3, <2>4
<1>7. IsFiniteSet(relieved(R))
  <2>1. [d \in R |-> f[d]] \in Surjection(R, {f[d] : d \in R})
    BY DEF Surjection
  <2>2. IsFiniteSet({f[d] : d \in R}) /\ IsFiniteSet(1..Cardinality(R))
    BY <1>2, <1>3, <2>1, FS_Surjection, FS_Interval
  <2>3. IsFiniteSet({f[d] : d \in R} \X (1..Cardinality(R)))
    BY <2>2, FS_Product
  <2>4. relieved(R) \in SUBSET ({f[d] : d \in R} \X (1..Cardinality(R)))
    OBVIOUS
  <2> QED
    BY <2>3, <2>4, FS_Subset
<1>8. relieved(S) \in SUBSET relieved(R)
  BY <1>6
<1>9. Cardinality(relieved(S)) <= Cardinality(relieved(R))
  BY <1>7, <1>8, FS_Subset
<1> QED
  BY <1>9 DEF PressureRelief

------------------------------------------------------------------------------
(* The best set against a well spread one.                                  *)

\* No set is better than the one selected.
LEMMA SelectedIsBest ==
  ASSUME NEW t, NEW addr, NEW D, IsFiniteSet(D),
         NEW S, IsSelected(t, addr, D, S), NEW T \in Candidates(D)
  PROVE  ~ DistanceLess(distanceFunction(t, D, S), distanceFunction(t, D, T))
<1> DEFINE dS == distanceFunction(t, D, S)
           dT == distanceFunction(t, D, T)
<1>1. S \in Candidates(D) /\ (DistanceLess(dT, dS) \/ dT = dS)
  BY DEF IsSelected
<1>2. IsFiniteSet(S) /\ IsFiniteSet(T)
  BY <1>1, FS_Subset DEF Candidates, kSubset
<1>3. dS \in Distances /\ dT \in Distances
  BY <1>2, DistanceType
<1> HIDE DEF dS, dT
<1>4. ~ DistanceLess(dS, dT)
  BY <1>1, <1>3, DistanceTransitive, DistanceIrreflexive
<1> QED
  BY <1>4 DEF dS, dT

\* A member of a set that keeps to one rack can make room for a server from
\* another rack without bringing two members on one host or one store.
LEMMA RoomForAnother ==
  ASSUME NEW t, NEW D, D \subseteq DOMAIN t.host,
         NEW S \in SUBSET D, S # {}, isAcceptableHostLocality(t, S),
         NEW r, \A d \in S : RackOf(t)[d] = r,
         NEW x \in D, RackOf(t)[x] # r
  PROVE  \E s \in S : isAcceptableHostLocality(t, (S \ {s}) \cup {x})
<1>1. \A d \in S : t.host[d] # t.host[x]
  BY DEF RackOf
<1>2. PICK s \in S : \A d \in S \ {s} : t.store[d] # t.store[x]
  <2>1. CASE \E d \in S : t.store[d] = t.store[x]
    BY <2>1 DEF isAcceptableHostLocality
  <2>2. CASE \A d \in S : t.store[d] # t.store[x]
    BY <2>2
  <2> QED
    BY <2>1, <2>2
<1>3. isAcceptableHostLocality(t, (S \ {s}) \cup {x})
  BY <1>1, <1>2 DEF isAcceptableHostLocality
<1> QED
  BY <1>3

\* Where a rack is in one data center and no more than two racks are asked for,
\* a set that satisfies hosts, stores and racks is never passed over for one
\* that does not: with a member exchanged for a server of another rack, a set
\* that keeps to one rack would have the greater distance.
THEOREM SpreadNotOverlooked ==
  ASSUME NEW t, NEW addr, NEW D, IsFiniteSet(D), D \subseteq DOMAIN t.host,
         \A d, e \in D : RackOf(t)[d] = RackOf(t)[e] => DataCenterOf(t)[d] = DataCenterOf(t)[e],
         MinRacks <= 2,
         NEW S, IsSelected(t, addr, D, S),
         NEW T \in Candidates(D), isAcceptableHostLocality(t, T), SpansRacks(t, T)
  PROVE  isAcceptableHostLocality(t, S) /\ SpansRacks(t, S)
<1> DEFINE dist(U) == distanceFunction(t, D, U)
           racks(U) == {RackOf(t)[d] : d \in U}
<1>1. S \in Candidates(D)
  BY DEF IsSelected
<1>2. ASSUME NEW U \in Candidates(D)
      PROVE  /\ U \in SUBSET D /\ IsFiniteSet(U) /\ Cardinality(U) = ReplicationFactor
             /\ dist(U) \in Distances
             /\ ~ DistanceLess(dist(S), dist(U))
  <2>1. U \in SUBSET D /\ Cardinality(U) = ReplicationFactor
    BY DEF Candidates, kSubset
  <2>2. IsFiniteSet(U)
    BY <2>1, FS_Subset
  <2> QED
    BY <2>1, <2>2, DistanceType, SelectedIsBest
<1>3. \A U : /\ dist(U)[1] = Cardinality(DifferingHostsStores(t, U))
             /\ dist(U)[2] = PressureRelief(D, U, RackOf(t))
             /\ dist(U)[3] = PressureRelief(D, U, DataCenterOf(t))
             /\ dist(U)[4] = Cardinality(DifferingPairs(U, RackOf(t)))
  BY DEF distanceFunction
<1>4. ReplicationFactor \in Nat \ {0} /\ MinRacks \in Int
  BY PlacementAssumption
<1> DEFINE mostPairs == Cardinality(kSubset(2, S))
<1>5. ASSUME NEW U \in Candidates(D)
      PROVE  /\ dist(U)[1] <= mostPairs
             /\ isAcceptableHostLocality(t, U) <=> dist(U)[1] = mostPairs
  <2>1. Cardinality(kSubset(2, U)) = mostPairs
    BY <1>1, <1>2, AsManyPairs
  <2> QED
    BY <1>2, <1>3, <2>1, HostsApart
<1> HIDE DEF dist, mostPairs
<1>6. isAcceptableHostLocality(t, S)
  <2>1. dist(T)[1] = mostPairs /\ dist(S)[1] <= mostPairs
    BY <1>1, <1>5
  <2>2. ~ (dist(S)[1] < dist(T)[1])
    BY <1>2 DEF DistanceLess
  <2>3. dist(S)[1] = mostPairs
    BY <1>1, <1>2, <2>1, <2>2 DEF Distances
  <2> QED
    BY <1>1, <1>5, <2>3
<1>7. SpansRacks(t, S)
  <2>1. SUFFICES ASSUME ~ SpansRacks(t, S) PROVE FALSE
    OBVIOUS
  <2>2. \A U \in Candidates(D) : /\ IsFiniteSet(racks(U))
                                 /\ Cardinality(racks(U)) \in Nat
                                 /\ Cardinality(racks(U)) <= ReplicationFactor
    <3>1. SUFFICES ASSUME NEW U \in Candidates(D)
                   PROVE  /\ IsFiniteSet(racks(U))
                          /\ Cardinality(racks(U)) \in Nat
                          /\ Cardinality(racks(U)) <= ReplicationFactor
      OBVIOUS
    <3>2. [d \in U |-> RackOf(t)[d]] \in Surjection(U, racks(U))
      BY DEF Surjection
    <3> QED
      BY <1>2, <3>2, FS_Surjection, FS_CardinalityType
  <2>3. 0 <= MinRacks /\ MinRacks <= Cardinality(racks(T)) /\ Cardinality(racks(S)) < MinRacks
    BY <1>1, <1>4, <2>1, <2>2 DEF SpansRacks
  <2>4. S # {}
    BY <1>1, <1>2, <1>4, FS_EmptySet
  <2>5. Cardinality(racks(S)) # 0
    <3>1. racks(S) # {} /\ IsFiniteSet(racks(S))
      BY <1>1, <2>2, <2>4
    <3> HIDE DEF racks
    <3> QED
      BY <3>1, FS_EmptySet
  <2>6. Cardinality(racks(S)) = 1 /\ Cardinality(racks(T)) >= 2 /\ ReplicationFactor >= 2
    <3>1. /\ Cardinality(racks(S)) \in Nat /\ Cardinality(racks(T)) \in Nat
          /\ Cardinality(racks(T)) <= ReplicationFactor
      BY <1>1, <2>2
    <3> HIDE DEF racks
    <3> QED
      BY <1>4, <2>3, <2>5, <3>1
  <2>7. PICK r : racks(S) = {r}
    BY <1>1, <2>2, <2>6, FS_Singleton
  <2>8. \A d \in S : RackOf(t)[d] = r
    BY <2>7
  <2>9. PICK x \in T : RackOf(t)[x] # r
    <3>1. SUFFICES ASSUME \A x \in T : RackOf(t)[x] = r PROVE FALSE
      OBVIOUS
    <3>2. racks(T) \in SUBSET {r}
      BY <3>1
    <3> HIDE DEF racks
    <3>3. IsFiniteSet({r}) /\ Cardinality({r}) = 1
      BY FS_Singleton
    <3>4. Cardinality(racks(T)) <= 1
      BY <3>2, <3>3, FS_Subset
    <3> QED
      BY <2>2, <2>6, <3>4
  <2>10. x \in D \ S
    BY <1>2, <2>8, <2>9
  <2>11. PICK s \in S : isAcceptableHostLocality(t, (S \ {s}) \cup {x})
    BY <1>1, <1>2, <1>6, <2>4, <2>8, <2>9, <2>10, RoomForAnother
  <2> DEFINE U == (S \ {s}) \cup {x}
  <2>12. U \in Candidates(D)
    <3>1. IsFiniteSet(S \ {s}) /\ Cardinality(S \ {s}) = ReplicationFactor - 1
      BY <1>1, <1>2, FS_RemoveElement
    <3>2. x \notin S \ {s}
      BY <2>10
    <3>3. Cardinality(U) = (ReplicationFactor - 1) + 1
      BY <3>1, <3>2, FS_AddElement
    <3>4. U \in SUBSET D
      BY <1>1, <1>2, <2>10
    <3> QED
      BY <1>4, <3>3, <3>4 DEF Candidates, kSubset
  <2>13. PICK o \in S : o # s
    <3>1. Cardinality(S) = ReplicationFactor /\ Cardinality({s}) = 1
      BY <1>1, <1>2, FS_Singleton
    <3>2. S # {s}
      BY <1>4, <2>6, <3>1
    <3> QED
      BY <3>2
  <2>14. dist(S)[1] = dist(U)[1]
    BY <1>1, <1>5, <1>6, <2>11, <2>12
  <2>15. dist(S)[2] <= dist(U)[2]
    BY <1>1, <1>3, <2>6, <2>8, <2>10, ReliefKept
  <2>16. dist(S)[3] <= dist(U)[3]
    <3>1. \A d \in S : DataCenterOf(t)[d] = DataCenterOf(t)[o]
      BY <1>1, <1>2, <2>8
    <3> QED
      BY <1>1, <1>3, <2>6, <2>10, <3>1, ReliefKept
  <2>17. dist(S)[4] = 0
    <3>1. DifferingPairs(S, RackOf(t)) = {}
      BY <2>8 DEF DifferingPairs, kSubset
    <3> QED
      BY <1>3, <3>1, FS_EmptySet
  <2>18. dist(U)[4] # 0
    <3>1. {o, x} \in DifferingPairs(U, RackOf(t))
      <4>1. o \in U /\ x \in U /\ o # x /\ RackOf(t)[o] # RackOf(t)[x]
        BY <2>8, <2>9, <2>13
      <4>2. {o, x} \in kSubset(2, U)
        BY <4>1, PairOf
      <4> QED
        BY <4>1, <4>2 DEF DifferingPairs
    <3>2. IsFiniteSet(DifferingPairs(U, RackOf(t)))
      <4>1. DifferingPairs(U, RackOf(t)) \in SUBSET kSubset(2, U)
        BY DEF DifferingPairs
      <4>2. IsFiniteSet(U)
        BY <1>2, <2>12
      <4> QED
        BY <4>1, <4>2, PairsFinite, FS_Subset
    <3> QED
      BY <1>3, <3>1, <3>2, FS_EmptySet
  <2> HIDE DEF U
  <2>19. \A i \in 1..6 : dist(S)[i] \in Nat /\ dist(U)[i] \in Nat
    BY <1>1, <1>2, <2>12 DEF Distances
  <2>20. DistanceLess(dist(S), dist(U))
    <3>1. CASE dist(S)[2] < dist(U)[2]
      BY <2>14, <3>1 DEF DistanceLess
    <3>2. CASE dist(S)[2] = dist(U)[2] /\ dist(S)[3] < dist(U)[3]
      <4>1. \A j \in 1..(3 - 1) : dist(S)[j] = dist(U)[j]
        BY <2>14, <3>2
      <4> QED
        BY <3>2, <4>1 DEF DistanceLess
    <3>3. CASE dist(S)[2] = dist(U)[2] /\ dist(S)[3] = dist(U)[3]
      <4>1. \A j \in 1..(4 - 1) : dist(S)[j] = dist(U)[j]
        BY <2>14, <3>3
      <4>2. dist(S)[4] < dist(U)[4]
        BY <2>17, <2>18, <2>19
      <4> QED
        BY <4>1, <4>2 DEF DistanceLess
    <3> QED
      BY <2>15, <2>16, <2>19, <3>1, <3>2, <3>3
  <2> QED
    BY <1>2, <2>12, <2>20
<1> QED
  BY <1>6, <1>7
==============================================================================
