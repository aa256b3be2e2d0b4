------------------------ MODULE ReplicaSelectionProofs ------------------------
(***************************************************************************)
(* The walk of selectReplicaSet over index vectors visits all of them in   *)
(* lexicographic order and ends with the best replica set, for every       *)
(* number of unplaced servers and every replication factor.                *)
(***************************************************************************)
EXTENDS ReplicaSelection, PlacementProofs

------------------------------------------------------------------------------
(* Index vectors.                                                           *)

LEMMA Sizes ==
  ASSUME Selectable(problem)
  PROVE  /\ ReplicationFactor \in Nat \ {0}
         /\ MaxIndex \in Nat
         /\ ReplicationFactor - 1 <= MaxIndex
         /\ Cardinality(problem.daemons) = MaxIndex + 1
<1>1. Cardinality(problem.daemons) \in Nat
  BY FS_CardinalityType DEF Selectable
<1> QED
  BY <1>1, PlacementAssumption DEF Selectable, MaxIndex

\* A position leaves room for those before it and those after it.
LEMMA IndexVectorRoom ==
  ASSUME Selectable(problem), NEW v \in IndexVectors
  PROVE  /\ v \in [Positions -> 0..MaxIndex]
         /\ \A i, j \in Positions : i < j => v[i] + (j - i) <= v[j]
         /\ \A i \in Positions : v[i] \in Nat
         /\ \A i \in Positions : i <= v[i] /\ v[i] + (ReplicationFactor - 1 - i) <= MaxIndex
<1>1. /\ v \in [Positions -> 0..MaxIndex]
      /\ \A i, j \in Positions : i < j => v[i] + (j - i) <= v[j]
  BY DEF IndexVectors
<1>2. /\ ReplicationFactor \in Nat \ {0} /\ MaxIndex \in Nat
  BY Sizes
<1>3. \A i \in Positions : i \in Nat /\ v[i] \in Nat /\ v[i] <= MaxIndex
  BY <1>1, <1>2 DEF Positions
<1>4. 0 \in Positions /\ ReplicationFactor - 1 \in Positions
  BY <1>2 DEF Positions
<1>5. ASSUME NEW i \in Positions
      PROVE  i <= v[i]
  <2>1. CASE i = 0
    BY <1>3, <2>1
  <2>2. CASE 0 < i
    BY <1>1, <1>3, <1>4, <2>2
  <2> QED
    BY <1>3, <2>1, <2>2
<1>6. ASSUME NEW i \in Positions
      PROVE  v[i] + (ReplicationFactor - 1 - i) <= MaxIndex
  <2>1. CASE i = ReplicationFactor - 1
    BY <1>2, <1>3, <2>1
  <2>2. CASE i < ReplicationFactor - 1
    <3>1. v[i] + (ReplicationFactor - 1 - i) <= v[ReplicationFactor - 1]
      BY <1>1, <1>4, <2>2
    <3> QED
      BY <1>2, <1>3, <1>4, <3>1
  <2>3. i <= ReplicationFactor - 1
    BY <1>2 DEF Positions
  <2> QED
    BY <1>2, <1>3, <2>1, <2>2, <2>3
<1> QED
  BY <1>1, <1>3, <1>5, <1>6

\* Two different vectors differ first somewhere, and are ordered by it.
LEMMA LexTotal ==
  ASSUME Selectable(problem), NEW v \in IndexVectors, NEW w \in IndexVectors
  PROVE  v = w \/ LexLess(v, w) \/ LexLess(w, v)
<1> SUFFICES ASSUME v # w
             PROVE  LexLess(v, w) \/ LexLess(w, v)
  OBVIOUS
<1>1. /\ v \in [Positions -> 0..MaxIndex] /\ w \in [Positions -> 0..MaxIndex]
      /\ \A i \in Positions : v[i] \in Nat /\ w[i] \in Nat
  BY IndexVectorRoom
<1> DEFINE Different == {i \in Positions : v[i] # w[i]}
<1>2. Different # {}
  BY <1>1
<1>3. Different \in SUBSET Nat
  BY Sizes DEF Positions
<1>4. PICK i \in Different : \A j \in Different : i <= j
  BY <1>2, <1>3, LeastNumber
<1>5. ASSUME NEW j \in Positions, j < i
      PROVE  v[j] = w[j]
  BY <1>3, <1>4, <1>5, Sizes DEF Positions
<1>6. i \in Positions /\ (v[i] < w[i] \/ w[i] < v[i])
  BY <1>1, <1>4
<1> QED
  BY <1>5, <1>6 DEF LexLess

LEMMA LexIrreflexive ==
  ASSUME Selectable(problem), NEW v \in IndexVectors
  PROVE  ~ LexLess(v, v)
<1>1. \A i \in Positions : v[i] \in Nat
  BY IndexVectorRoom
<1> QED
  BY <1>1 DEF LexLess

LEMMA LexTransitive ==
  ASSUME Selectable(problem),
         NEW u \in IndexVectors, NEW v \in IndexVectors, NEW w \in IndexVectors,
         LexLess(u, v), LexLess(v, w)
  PROVE  LexLess(u, w)
<1>1. \A i \in Positions : i \in Nat /\ u[i] \in Nat /\ v[i] \in Nat /\ w[i] \in Nat
  BY IndexVectorRoom, Sizes DEF Positions
<1>2. PICK i \in Positions : u[i] < v[i] /\ \A j \in Positions : j < i => u[j] = v[j]
  BY DEF LexLess
<1>3. PICK k \in Positions : v[k] < w[k] /\ \A j \in Positions : j < k => v[j] = w[j]
  BY DEF LexLess
<1>4. CASE i <= k
  <2>1. u[i] < w[i]
    BY <1>1, <1>2, <1>3, <1>4
  <2>2. \A j \in Positions : j < i => u[j] = w[j]
    BY <1>1, <1>2, <1>3, <1>4
  <2> QED
    BY <2>1, <2>2 DEF LexLess
<1>5. CASE k < i
  <2>1. u[k] < w[k]
    BY <1>1, <1>2, <1>3, <1>5
  <2>2. \A j \in Positions : j < k => u[j] = w[j]
    BY <1>1, <1>2, <1>3, <1>5
  <2> QED
    BY <2>1, <2>2 DEF LexLess
<1> QED
  BY <1>1, <1>4, <1>5

\* The walk begins with the first index vector.
LEMMA FirstVector ==
  ASSUME Selectable(problem)
  PROVE  /\ FirstIndexVector \in IndexVectors
         /\ \A u \in IndexVectors : ~ LexLess(u, FirstIndexVector)
<1>1. ReplicationFactor \in Nat \ {0} /\ MaxIndex \in Nat /\ ReplicationFactor - 1 <= MaxIndex
  BY Sizes
<1>2. FirstIndexVector \in IndexVectors
  BY <1>1 DEF FirstIndexVector, IndexVectors, Positions
<1>3. ASSUME NEW u \in IndexVectors, NEW i \in Positions, u[i] < FirstIndexVector[i]
      PROVE  FALSE
  <2>1. i <= u[i] /\ u[i] \in Nat /\ i \in Nat
    BY <1>1, IndexVectorRoom DEF Positions
  <2> QED
    BY <1>3, <2>1 DEF FirstIndexVector
<1> QED
  BY <1>2, <1>3 DEF LexLess

\* A position that cannot move up is as high as in any index vector.
LEMMA AtItsEnd ==
  ASSUME Selectable(problem), NEW v \in IndexVectors, NEW u \in IndexVectors,
         NEW i \in Positions, ~ CanMove(v, i)
  PROVE  u[i] <= v[i]
<1>1. /\ v[i] \in Nat /\ u[i] \in Nat
      /\ u[i] + (ReplicationFactor - 1 - i) <= MaxIndex
  BY IndexVectorRoom
<1>2. ReplicationFactor \in Nat /\ MaxIndex \in Nat /\ i \in Int
  BY Sizes DEF Positions
<1> QED
  BY <1>1, <1>2 DEF CanMove

\* nextIndexVector moves to the immediate lexicographic successor ...
LEMMA NextVector ==
  ASSUME Selectable(problem), NEW v \in IndexVectors, NEW w, IsNextIndexVector(v, w)
  PROVE  /\ w \in IndexVectors
         /\ LexLess(v, w)
         /\ \A u \in IndexVectors : ~ (LexLess(v, u) /\ LexLess(u, w))
<1>1. PICK i \in Positions :
        /\ CanMove(v, i)
        /\ \A j \in Positions : j > i => ~ CanMove(v, j)
        /\ w = Moved(v, i)
  BY DEF IsNextIndexVector
<1>2. ReplicationFactor \in Nat \ {0} /\ MaxIndex \in Nat
  BY Sizes
<1>3. /\ v \in [Positions -> 0..MaxIndex]
      /\ \A j, k \in Positions : j < k => v[j] + (k - j) <= v[k]
      /\ \A j \in Positions : v[j] \in Nat
  BY IndexVectorRoom
<1>4. \A j \in Positions : j \in Nat /\ j <= ReplicationFactor - 1
  BY <1>2 DEF Positions
<1>5. \A j \in Positions : w[j] = IF j < i THEN v[j] ELSE v[i] + 1 + (j - i)
  BY <1>1 DEF Moved
<1>6. v[i] + 1 + (ReplicationFactor - 1 - i) <= MaxIndex
  BY <1>1 DEF CanMove
<1>7. \A j \in Positions : w[j] \in 0..MaxIndex
  BY <1>2, <1>3, <1>4, <1>5, <1>6
<1>8. w \in [Positions -> 0..MaxIndex]
  BY <1>1, <1>7 DEF Moved
<1>9. ASSUME NEW j \in Positions, NEW k \in Positions, j < k
      PROVE  w[j] + (k - j) <= w[k]
  <2>1. CASE k < i
    BY <1>3, <1>4, <1>5, <1>9, <2>1
  <2>2. CASE i <= j
    BY <1>3, <1>4, <1>5, <1>9, <2>2
  <2>3. CASE j < i /\ i <= k
    <3>1. v[j] + (i - j) <= v[i]
      BY <1>3, <2>3
    <3> QED
      BY <1>3, <1>4, <1>5, <2>3, <3>1
  <2> QED
    BY <1>4, <2>1, <2>2, <2>3
<1>10. w \in IndexVectors
  BY <1>8, <1>9 DEF IndexVectors
<1>11. LexLess(v, w)
  <2>1. v[i] < w[i] /\ \A j \in Positions : j < i => v[j] = w[j]
    BY <1>3, <1>4, <1>5
  <2> QED
    BY <2>1 DEF LexLess
<1>12. ASSUME NEW u \in IndexVectors, LexLess(v, u), LexLess(u, w)
       PROVE  FALSE
  <2>1. /\ \A j, k \in Positions : j < k => u[j] + (k - j) <= u[k]
        /\ \A j \in Positions : u[j] \in Nat
    BY IndexVectorRoom
  <2>2. PICK k \in Positions : v[k] < u[k] /\ \A j \in Positions : j < k => v[j] = u[j]
    BY <1>12 DEF LexLess
  <2>3. PICK m \in Positions : u[m] < w[m] /\ \A j \in Positions : j < m => u[j] = w[j]
    BY <1>12 DEF LexLess
  <2>4. ~ (k > i)
    <3>1. SUFFICES ASSUME k > i PROVE FALSE
      OBVIOUS
    <3>2. u[k] <= v[k]
      BY <1>1, <3>1, AtItsEnd
    <3> QED
      BY <1>3, <2>1, <2>2, <3>2
  <2>5. m >= k
    <3>1. SUFFICES ASSUME m < k PROVE FALSE
      BY <1>4
    <3>2. u[m] = v[m] /\ w[m] = v[m]
      BY <1>4, <1>5, <2>2, <2>4, <3>1
    <3> QED
      BY <1>3, <2>3, <3>2
  <2>6. ~ (k < i)
    BY <1>3, <1>4, <1>5, <2>1, <2>2, <2>3, <2>5
  <2>7. k = i
    BY <1>4, <2>4, <2>6
  <2>8. u[i] >= w[i]
    BY <1>3, <1>4, <1>5, <2>1, <2>2, <2>7
  <2>9. m > i
    BY <1>3, <1>4, <1>5, <2>1, <2>3, <2>5, <2>7, <2>8
  <2>10. u[m] >= u[i] + (m - i)
    BY <2>1, <2>9
  <2> QED
    BY <1>3, <1>4, <1>5, <2>1, <2>3, <2>8, <2>9, <2>10
<1> QED
  BY <1>10, <1>11, <1>12

\* ... and reports the end at the last index vector only.
LEMMA LastVector ==
  ASSUME Selectable(problem), NEW v \in IndexVectors, ~ HasNextIndexVector(v),
         NEW u \in IndexVectors
  PROVE  ~ LexLess(v, u)
<1>1. \A i \in Positions : u[i] <= v[i] /\ u[i] \in Nat /\ v[i] \in Nat
  BY AtItsEnd, IndexVectorRoom DEF HasNextIndexVector
<1> QED
  BY <1>1 DEF LexLess

------------------------------------------------------------------------------
(* The walk.                                                                *)

InAddressOrder ==
  daemonVector = [i \in 0..MaxIndex |-> InOrder(problem.addr, problem.daemons)[i + 1]]

\* What holds between any two steps: the distance kept is that of the selection
\* kept, whatever was evaluated is no better, and the walk stops at the end only.
WalkInv ==
  /\ TypeOK
  /\ InAddressOrder
  /\ bestSelection = <<>> => bestDistance = NoDistance
  /\ bestSelection # <<>> => bestDistance = DistanceOf(bestSelection)
  /\ BestSoFar
  /\ pc \in {"accepted", "rejected"} => ~ HasNextIndexVector(currentSelection)

LEMMA NoDistanceLeast ==
  /\ NoDistance \in Distances
  /\ \A a \in Distances : DistanceAtLeast(a, NoDistance)
<1>1. NoDistance \in Distances /\ \A i \in 1..6 : NoDistance[i] = 0
  BY DEF NoDistance, Distances
<1>2. ASSUME NEW a \in Distances, DistanceLess(a, NoDistance)
      PROVE  FALSE
  <2>1. PICK i \in 1..6 : a[i] < NoDistance[i]
    BY <1>2 DEF DistanceLess
  <2> QED
    BY <1>1, <2>1 DEF Distances
<1> QED
  BY <1>1, <1>2 DEF DistanceAtLeast

LEMMA VectorsNotEmpty == \A v \in IndexVectors : v # <<>>
<1>1. 0 \in Positions
  BY PlacementAssumption DEF Positions
<1>2. \A v \in IndexVectors : 0 \in DOMAIN v
  BY <1>1 DEF IndexVectors
<1>3. 0 \notin DOMAIN <<>>
  OBVIOUS
<1> QED
  BY <1>2, <1>3

LEMMA ChosenType ==
  ASSUME Selectable(problem), daemonVector \in [0..MaxIndex -> problem.daemons],
         NEW v \in IndexVectors
  PROVE  /\ Chosen(v) \in SUBSET problem.daemons
         /\ IsFiniteSet(Chosen(v))
         /\ DistanceOf(v) \in Distances
<1>1. Chosen(v) \in SUBSET problem.daemons
  BY IndexVectorRoom DEF Chosen
<1>2. IsFiniteSet(Chosen(v))
  BY <1>1, FS_Subset DEF Selectable
<1> QED
  BY <1>1, <1>2, DistanceType DEF DistanceOf

LEMMA WalkInit == Init => WalkInv
<1> SUFFICES ASSUME Init PROVE WalkInv
  OBVIOUS
<1>1. Selectable(problem)
  BY ProblemsAssumption DEF Init
<1>2. daemonVector \in [0..MaxIndex -> problem.daemons]
  <2>1. Cardinality(problem.daemons) = MaxIndex + 1 /\ MaxIndex \in Nat
    BY <1>1, Sizes
  <2>2. InOrder(problem.addr, problem.daemons) \in [1..(MaxIndex + 1) -> problem.daemons]
    BY <1>1, <2>1, InOrderType DEF Selectable
  <2>3. \A i \in 0..MaxIndex : i + 1 \in 1..(MaxIndex + 1)
    BY <2>1
  <2> QED
    BY <2>2, <2>3 DEF Init
<1>3. TypeOK
  BY <1>1, <1>2, FirstVector, NoDistanceLeast DEF Init, TypeOK, Distances
<1>4. BestSoFar
  BY <1>1, FirstVector DEF Init, BestSoFar, Evaluated
<1> QED
  BY <1>3, <1>4 DEF Init, WalkInv, InAddressOrder

\* Evaluating the current selection keeps it or shows that it is worse.
LEMMA EvaluateStep ==
  ASSUME WalkInv, Evaluate
  PROVE  WalkInv'
<1> DEFINE cur == currentSelection
<1>1. /\ Selectable(problem) /\ daemonVector \in [0..MaxIndex -> problem.daemons]
      /\ cur \in IndexVectors /\ bestDistance \in Distances
      /\ bestSelection \in IndexVectors \cup {<<>>}
      /\ pc = "evaluate" /\ pc' = "advance"
      /\ UNCHANGED <<problem, daemonVector, currentSelection>>
  BY DEF WalkInv, TypeOK, Evaluate, Distances
<1>2. /\ MaxIndex' = MaxIndex /\ IndexVectors' = IndexVectors
      /\ \A v : DistanceOf(v)' = DistanceOf(v)
  BY <1>1 DEF MaxIndex, IndexVectors, DistanceOf, Chosen
<1>3. \A v \in IndexVectors : DistanceOf(v) \in Distances
  BY <1>1, ChosenType
<1>4. \A v \in IndexVectors : Evaluated(v)' <=> LexLess(v, cur) \/ v = cur
  BY <1>1 DEF Evaluated, LexLess
<1>5. \A v \in IndexVectors : Evaluated(v) <=> LexLess(v, cur)
  BY <1>1 DEF Evaluated
<1>6. ~ LexLess(cur, cur) /\ \A v \in IndexVectors : ~ (LexLess(v, cur) /\ LexLess(cur, v))
  BY <1>1, LexIrreflexive, LexTransitive
<1>7. CASE IsKept(cur)
  <2>1. bestSelection' = cur /\ bestDistance' = DistanceOf(cur)
    BY <1>7 DEF Evaluate
  <2>2. DistanceAtLeast(DistanceOf(cur), bestDistance)
    BY <1>7 DEF IsKept
  <2>3. ASSUME NEW v \in IndexVectors, Evaluated(v)'
        PROVE  DistanceAtLeast(DistanceOf(cur), DistanceOf(v)) /\ ~ LexLess(cur, v)
    <3>1. CASE v = cur
      BY <1>1, <1>3, <1>6, <3>1, DistanceIrreflexive DEF DistanceAtLeast
    <3>2. CASE LexLess(v, cur)
      <4>1. DistanceAtLeast(bestDistance, DistanceOf(v))
        BY <1>5, <3>2 DEF WalkInv, BestSoFar
      <4> QED
        BY <1>1, <1>3, <1>6, <2>2, <3>2, <4>1, AtLeastTransitive
    <3> QED
      BY <1>4, <2>3, <3>1, <3>2
  <2>4. BestSoFar'
    <3>1. ASSUME NEW v \in IndexVectors, Evaluated(v)'
          PROVE  /\ Evaluated(bestSelection)'
                 /\ DistanceAtLeast(bestDistance', DistanceOf(v)')
                 /\ ~ LexLess(bestSelection', v)
      <4>1. Evaluated(bestSelection)'
        BY <1>1, <2>1 DEF Evaluated
      <4> QED
        BY <1>2, <2>1, <2>3, <3>1, <4>1
    <3> QED
      BY <1>2, <3>1 DEF BestSoFar, LexLess, DistanceAtLeast, DistanceLess
  <2>5. TypeOK'
    BY <1>1, <1>2, <1>3, <2>1, VectorsNotEmpty DEF TypeOK, Distances, Selectable
  <2>6. bestSelection' # <<>> /\ bestDistance' = DistanceOf(bestSelection)'
    BY <1>1, <1>2, <2>1, VectorsNotEmpty DEF DistanceOf, Chosen
  <2> QED
    BY <1>1, <1>2, <2>4, <2>5, <2>6 DEF WalkInv, InAddressOrder
<1>8. CASE ~ IsKept(cur)
  <2>1. UNCHANGED <<bestSelection, bestDistance>>
    BY <1>8 DEF Evaluate
  <2>2. DistanceLess(DistanceOf(cur), bestDistance)
    BY <1>8 DEF IsKept, DistanceAtLeast
  <2>3. bestSelection # <<>>
    <3>1. SUFFICES ASSUME bestSelection = <<>> PROVE FALSE
      OBVIOUS
    <3>2. bestDistance = NoDistance
      BY <3>1 DEF WalkInv
    <3> QED
      BY <1>1, <1>3, <2>2, <3>2, NoDistanceLeast DEF DistanceAtLeast
  <2>4. bestSelection \in IndexVectors /\ LexLess(bestSelection, cur)
    <3>1. bestSelection \in IndexVectors
      BY <1>1, <2>3
    <3>2. cur # FirstIndexVector
      BY <1>1, <2>3 DEF WalkInv, TypeOK
    <3>3. FirstIndexVector \in IndexVectors /\ LexLess(FirstIndexVector, cur)
      BY <1>1, <3>2, FirstVector, LexTotal
    <3>4. Evaluated(bestSelection)
      BY <1>5, <3>3 DEF WalkInv, BestSoFar
    <3> QED
      BY <1>5, <3>1, <3>4
  <2>5. ASSUME NEW v \in IndexVectors, Evaluated(v)'
        PROVE  /\ Evaluated(bestSelection)'
               /\ DistanceAtLeast(bestDistance, DistanceOf(v))
               /\ LexLess(bestSelection, v) => DistanceLess(DistanceOf(v), bestDistance)
    <3>1. Evaluated(bestSelection)'
      BY <1>1, <2>1, <2>4 DEF Evaluated, LexLess
    <3>2. CASE v = cur
      <4>1. ASSUME DistanceLess(bestDistance, DistanceOf(cur)) PROVE FALSE
        <5>1. DistanceLess(bestDistance, bestDistance)
          BY <1>1, <1>3, <2>2, <4>1, DistanceTransitive
        <5> QED
          BY <1>1, <5>1, DistanceIrreflexive
      <4> QED
        BY <2>2, <3>1, <3>2, <4>1 DEF DistanceAtLeast
    <3>3. CASE LexLess(v, cur)
      BY <1>5, <3>1, <3>3 DEF WalkInv, BestSoFar
    <3> QED
      BY <1>4, <2>5, <3>2, <3>3
  <2>6. BestSoFar'
    BY <1>2, <2>1, <2>5 DEF BestSoFar, LexLess, DistanceAtLeast, DistanceLess
  <2>7. TypeOK'
    BY <1>1, <1>2, <2>1, <2>3 DEF TypeOK, Distances, Selectable
  <2>8. bestDistance' = DistanceOf(bestSelection)'
    BY <1>1, <2>1, <2>3 DEF WalkInv, DistanceOf, Chosen
  <2> QED
    BY <1>1, <1>2, <2>1, <2>3, <2>6, <2>7, <2>8 DEF WalkInv, InAddressOrder
<1> QED
  BY <1>7, <1>8

\* Moving on passes over nothing: what comes before the next selection is the
\* current one and what comes before that.
LEMMA AdvanceStep ==
  ASSUME WalkInv, Advance
  PROVE  WalkInv'
<1> DEFINE cur == currentSelection
           next == currentSelection'
<1>1. /\ Selectable(problem) /\ daemonVector \in [0..MaxIndex -> problem.daemons]
      /\ cur \in IndexVectors /\ bestSelection \in IndexVectors \cup {<<>>}
      /\ pc = "advance" /\ pc' = "evaluate" /\ IsNextIndexVector(cur, next)
      /\ UNCHANGED <<problem, daemonVector, bestSelection, bestDistance>>
  BY DEF WalkInv, TypeOK, Advance
<1>2. /\ MaxIndex' = MaxIndex /\ IndexVectors' = IndexVectors
      /\ \A v : DistanceOf(v)' = DistanceOf(v)
  BY <1>1 DEF MaxIndex, IndexVectors, DistanceOf, Chosen
<1>3. /\ next \in IndexVectors /\ LexLess(cur, next)
      /\ \A u \in IndexVectors : ~ (LexLess(cur, u) /\ LexLess(u, next))
  BY <1>1, NextVector
<1>4. ASSUME NEW v \in IndexVectors
      PROVE  Evaluated(v)' <=> Evaluated(v)
  <2>1. Evaluated(v)' <=> LexLess(v, next)
    BY <1>1 DEF Evaluated, LexLess
  <2>2. Evaluated(v) <=> LexLess(v, cur) \/ v = cur
    BY <1>1 DEF Evaluated
  <2>3. LexLess(v, cur) => LexLess(v, next)
    BY <1>1, <1>3, LexTransitive
  <2>4. LexLess(v, next) => LexLess(v, cur) \/ v = cur
    BY <1>1, <1>3, LexTotal
  <2> QED
    BY <1>3, <2>1, <2>2, <2>3, <2>4
<1>5. next # FirstIndexVector
  BY <1>1, <1>3, FirstVector
<1>6. bestSelection # <<>> /\ bestSelection \in IndexVectors
  BY <1>1 DEF WalkInv, TypeOK
<1>7. TypeOK'
  BY <1>1, <1>2, <1>3, <1>5, <1>6 DEF WalkInv, TypeOK, Selectable, FirstIndexVector, Positions
<1>8. BestSoFar'
  <2>1. \A v \in IndexVectors : Evaluated(v)' =>
          /\ Evaluated(bestSelection)'
          /\ DistanceAtLeast(bestDistance, DistanceOf(v))
          /\ LexLess(bestSelection, v) => DistanceLess(DistanceOf(v), bestDistance)
    BY <1>1, <1>4, <1>6 DEF WalkInv, BestSoFar, Evaluated, LexLess
  <2> QED
    BY <1>1, <1>2, <2>1 DEF BestSoFar, LexLess, DistanceAtLeast, DistanceLess
<1>9. bestDistance' = DistanceOf(bestSelection)'
  BY <1>1, <1>6 DEF WalkInv, DistanceOf, Chosen
<1> QED
  BY <1>1, <1>2, <1>6, <1>7, <1>8, <1>9 DEF WalkInv, InAddressOrder

\* Returning changes nothing but where the thread is, and stuttering nothing.
LEMMA ReturnStep ==
  ASSUME WalkInv,
         UNCHANGED <<problem, daemonVector, currentSelection, bestSelection, bestDistance>>,
         \/ pc' = pc
         \/ /\ pc = "advance" /\ pc' \in {"accepted", "rejected"}
            /\ ~ HasNextIndexVector(currentSelection)
  PROVE  WalkInv'
<1>1. /\ Selectable(problem) /\ daemonVector \in [0..MaxIndex -> problem.daemons]
      /\ pc \in {"evaluate", "advance", "accepted", "rejected"}
  BY DEF WalkInv, TypeOK
<1>2. /\ MaxIndex' = MaxIndex /\ IndexVectors' = IndexVectors
      /\ \A v : DistanceOf(v)' = DistanceOf(v)
      /\ \A v : HasNextIndexVector(v)' <=> HasNextIndexVector(v)
  BY DEF MaxIndex, IndexVectors, DistanceOf, Chosen, HasNextIndexVector, CanMove
<1>3. \A v : Evaluated(v)' <=> Evaluated(v)
  BY <1>1 DEF Evaluated, LexLess
<1>4. pc' \in {"evaluate", "advance", "accepted", "rejected"} /\ (pc' = "evaluate" <=> pc = "evaluate")
  BY <1>1
<1>5. TypeOK'
  BY <1>1, <1>2, <1>4 DEF WalkInv, TypeOK, Selectable, FirstIndexVector, Positions
<1>6. BestSoFar'
  <2>1. \A v \in IndexVectors : Evaluated(v)' =>
          /\ Evaluated(bestSelection)'
          /\ DistanceAtLeast(bestDistance, DistanceOf(v))
          /\ LexLess(bestSelection, v) => DistanceLess(DistanceOf(v), bestDistance)
    BY <1>3 DEF WalkInv, BestSoFar, Evaluated, LexLess
  <2> QED
    BY <1>2, <2>1 DEF BestSoFar, LexLess, DistanceAtLeast, DistanceLess
<1>7. /\ bestSelection' = <<>> => bestDistance' = NoDistance
      /\ bestSelection' # <<>> => bestDistance' = DistanceOf(bestSelection)'
  BY DEF WalkInv, DistanceOf, Chosen
<1>8. pc' \in {"accepted", "rejected"} => ~ HasNextIndexVector(currentSelection)'
  BY DEF WalkInv, HasNextIndexVector, CanMove, MaxIndex
<1> QED
  BY <1>2, <1>5, <1>6, <1>7, <1>8 DEF WalkInv, InAddressOrder

LEMMA WalkStep == WalkInv /\ [Next]_vars => WalkInv'
<1>1. ASSUME WalkInv, UNCHANGED vars
      PROVE  WalkInv'
  BY <1>1, ReturnStep DEF vars
<1>2. ASSUME WalkInv, Return
      PROVE  WalkInv'
  BY <1>2, ReturnStep DEF Return
<1> QED
  BY <1>1, <1>2, EvaluateStep, AdvanceStep DEF Next

LEMMA WalkSound == Spec => []WalkInv
<1>1. WalkInv /\ [Next]_vars => WalkInv'
  BY WalkStep
<1> QED
  BY WalkInit, <1>1, PTL DEF Spec

\* TypeOK: the index vector always names ReplicationFactor different servers in
\* increasing order, so no index runs over the end of daemonVector, and a
\* selection has been kept whenever the loop has been through its body.
THEOREM WalkTypeCorrect == Spec => []TypeOK
<1>1. WalkInv => TypeOK
  BY DEF WalkInv
<1> QED
  BY WalkSound, <1>1, PTL

\* BestSoFar: at any time the selection kept is the best, and the last of the
\* best, among all selections that come before the current one.
THEOREM BestKept == Spec => []BestSoFar
<1>1. WalkInv => BestSoFar
  BY DEF WalkInv
<1> QED
  BY WalkSound, <1>1, PTL

\* NextInOrder: nextIndexVector goes to the immediate successor, so the walk
\* passes over no selection and comes back to none.
THEOREM WalksInOrder == Spec => NextInOrder
<1>1. ASSUME WalkInv, [Next]_vars, currentSelection' # currentSelection
      PROVE  /\ LexLess(currentSelection, currentSelection')
             /\ \A v \in IndexVectors :
                  ~ (LexLess(currentSelection, v) /\ LexLess(v, currentSelection'))
  <2>1. Advance
    BY <1>1 DEF Next, vars, Evaluate, Return
  <2>2. /\ Selectable(problem) /\ currentSelection \in IndexVectors
        /\ IsNextIndexVector(currentSelection, currentSelection')
    BY <1>1, <2>1 DEF WalkInv, TypeOK, Advance
  <2> QED
    BY <2>2, NextVector
<1>2. WalkInv /\ [Next]_vars =>
        [currentSelection' # currentSelection =>
           /\ LexLess(currentSelection, currentSelection')
           /\ \A v \in IndexVectors :
                ~ (LexLess(currentSelection, v) /\ LexLess(v, currentSelection'))]_vars
  BY <1>1
<1> QED
  BY WalkSound, <1>2, PTL DEF Spec, NextInOrder

------------------------------------------------------------------------------
(* The index vectors stand for all sets of ReplicationFactor servers.       *)

\* daemonVector lists every unplaced server, at its rank, by increasing address.
LEMMA VectorByRank ==
  ASSUME Selectable(problem), InAddressOrder
  PROVE  /\ \A i \in 0..MaxIndex : /\ daemonVector[i] \in problem.daemons
                                   /\ Rank(problem.addr, problem.daemons, daemonVector[i]) = i
         /\ \A d \in problem.daemons :
              /\ Rank(problem.addr, problem.daemons, d) \in 0..MaxIndex
              /\ daemonVector[Rank(problem.addr, problem.daemons, d)] = d
         /\ \A i, j \in 0..MaxIndex :
              i < j => problem.addr[daemonVector[i]] < problem.addr[daemonVector[j]]
<1> DEFINE addr == problem.addr
           daemons == problem.daemons
           order == InOrder(addr, daemons)
           rank == [d \in daemons |-> Rank(addr, daemons, d)]
<1>1. /\ IsFiniteSet(daemons)
      /\ \A d \in daemons : addr[d] \in Nat
      /\ \A d, e \in daemons : d # e => addr[d] # addr[e]
  BY DEF Selectable
<1>2. MaxIndex \in Nat /\ Cardinality(daemons) = MaxIndex + 1
  BY Sizes
<1> HIDE DEF addr, daemons
<1>3. rank \in Injection(daemons, 0..(Cardinality(daemons) - 1))
  BY <1>1, RankInjection
<1>4. order \in [1..(MaxIndex + 1) -> daemons]
      /\ \A i \in 1..(MaxIndex + 1) : Rank(addr, daemons, order[i]) = i - 1
  BY <1>1, <1>2, InOrderType
<1>5. \A i \in 0..MaxIndex : daemonVector[i] = order[i + 1] /\ i + 1 \in 1..(MaxIndex + 1)
  BY <1>2 DEF InAddressOrder, addr, daemons
<1>6. \A i, j \in 1..(MaxIndex + 1) : i < j => addr[order[i]] < addr[order[j]]
  BY <1>1, <1>2, InOrderIncreasing
<1> HIDE DEF order
<1>7. \A i \in 0..MaxIndex : daemonVector[i] \in daemons /\ Rank(addr, daemons, daemonVector[i]) = i
  BY <1>2, <1>4, <1>5
<1>8. ASSUME NEW d \in daemons
      PROVE  /\ Rank(addr, daemons, d) \in 0..MaxIndex
             /\ daemonVector[Rank(addr, daemons, d)] = d
  <2>1. rank[d] \in 0..(Cardinality(daemons) - 1) /\ rank[d] = Rank(addr, daemons, d)
    BY <1>3 DEF Injection
  <2>2. Rank(addr, daemons, d) \in 0..MaxIndex
    BY <1>2, <2>1
  <2>3. daemonVector[rank[d]] \in daemons /\ rank[daemonVector[rank[d]]] = rank[d]
    BY <1>7, <2>1, <2>2
  <2>4. daemonVector[rank[d]] = d
    BY <1>3, <2>3 DEF Injection, IsInjective
  <2> QED
    BY <2>1, <2>2, <2>4
<1>9. ASSUME NEW i \in 0..MaxIndex, NEW j \in 0..MaxIndex, i < j
      PROVE  addr[daemonVector[i]] < addr[daemonVector[j]]
  BY <1>2, <1>5, <1>6, <1>9
<1> QED
  BY <1>7, <1>8, <1>9 DEF addr, daemons

\* A vector of increasing indices leaves the room index vectors leave.
LEMMA RoomBetween ==
  ASSUME Selectable(problem), NEW v \in [Positions -> 0..MaxIndex],
         \A i, j \in Positions : i < j => v[i] < v[j]
  PROVE  v \in IndexVectors
<1> DEFINE TooClose == {k \in Nat : \E i \in Positions : i + k \in Positions /\ v[i] + k > v[i + k]}
<1>1. ReplicationFactor \in Nat /\ MaxIndex \in Nat
  BY Sizes
<1>2. \A i \in Positions : i \in Nat /\ v[i] \in Nat
  BY <1>1 DEF Positions
<1>3. TooClose = {}
  <2>1. SUFFICES ASSUME TooClose # {} PROVE FALSE
    OBVIOUS
  <2>2. PICK k \in TooClose : \A l \in TooClose : k <= l
    BY <2>1, LeastNumber
  <2>3. PICK i \in Positions : i + k \in Positions /\ v[i] + k > v[i + k]
    BY <2>2
  <2>4. k \in Nat /\ k # 0
    BY <1>2, <2>2, <2>3
  <2>5. i + (k - 1) \in Positions /\ i + (k - 1) < i + k
    BY <1>1, <2>3, <2>4 DEF Positions
  <2>6. v[i + (k - 1)] < v[i + k]
    BY <2>3, <2>5
  <2>7. v[i] + (k - 1) > v[i + (k - 1)]
    BY <1>2, <2>3, <2>4, <2>5, <2>6
  <2>8. k - 1 \in TooClose
    BY <2>4, <2>5, <2>7
  <2> QED
    BY <2>2, <2>4, <2>8
<1>4. ASSUME NEW i \in Positions, NEW j \in Positions, i < j
      PROVE  v[i] + (j - i) <= v[j]
  <2>1. j - i \in Nat /\ i + (j - i) = j
    BY <1>2, <1>4
  <2>2. ~ (v[i] + (j - i) > v[j])
    BY <1>3, <2>1
  <2> QED
    BY <1>2, <2>1, <2>2
<1> QED
  BY <1>4 DEF IndexVectors

\* What an index vector selects is a candidate set ...
LEMMA ChosenIsCandidate ==
  ASSUME Selectable(problem), InAddressOrder, NEW v \in IndexVectors
  PROVE  Chosen(v) \in Candidates(problem.daemons)
<1> DEFINE member == [i \in Positions |-> daemonVector[v[i]]]
<1>1. /\ v \in [Positions -> 0..MaxIndex]
      /\ \A i, j \in Positions : i < j => v[i] + (j - i) <= v[j]
      /\ \A i \in Positions : v[i] \in Nat
  BY IndexVectorRoom
<1>2. ReplicationFactor \in Nat \ {0}
  BY Sizes
<1>3. Chosen(v) \in SUBSET problem.daemons
  BY <1>1, VectorByRank DEF Chosen
<1>4. \A i, j \in Positions : i # j => v[i] # v[j]
  <2>1. ASSUME NEW i \in Positions, NEW j \in Positions, i < j
        PROVE  v[i] # v[j]
    <3>1. v[i] + (j - i) <= v[j]
      BY <1>1, <2>1
    <3> QED
      BY <1>1, <1>2, <2>1, <3>1 DEF Positions
  <2> QED
    BY <1>2, <2>1 DEF Positions
<1>5. \A i, j \in Positions : member[i] = member[j] => i = j
  BY <1>1, <1>4, VectorByRank
<1>6. member \in Bijection(Positions, Chosen(v))
  BY <1>5 DEF Bijection, Injection, IsInjective, Surjection, Chosen
<1>7. IsFiniteSet(Positions) /\ Cardinality(Positions) = ReplicationFactor
  <2>1. /\ IsFiniteSet(0..(ReplicationFactor - 1))
        /\ Cardinality(0..(ReplicationFactor - 1)) =
             IF 0 > ReplicationFactor - 1 THEN 0 ELSE (ReplicationFactor - 1) - 0 + 1
    BY <1>2, FS_Interval
  <2> QED
    BY <1>2, <2>1 DEF Positions
<1>8. Cardinality(Chosen(v)) = ReplicationFactor
  BY <1>6, <1>7, FS_Bijection DEF ExistsBijection
<1> QED
  BY <1>3, <1>8 DEF Candidates, kSubset

\* ... and every candidate set is what some index vector selects.
LEMMA CandidateIsChosen ==
  ASSUME Selectable(problem), InAddressOrder, NEW T \in Candidates(problem.daemons)
  PROVE  \E v \in IndexVectors : Chosen(v) = T
<1> DEFINE addr == problem.addr
           daemons == problem.daemons
           order == InOrder(addr, T)
           v == [i \in Positions |-> Rank(addr, daemons, order[i + 1])]
<1>1. T \in SUBSET daemons /\ Cardinality(T) = ReplicationFactor
  BY DEF Candidates, kSubset
<1>2. /\ IsFiniteSet(daemons) /\ IsFiniteSet(T)
      /\ \A d \in daemons : addr[d] \in Nat
      /\ \A d, e \in daemons : d # e => addr[d] # addr[e]
  BY <1>1, FS_Subset DEF Selectable
<1>3. ReplicationFactor \in Nat /\ MaxIndex \in Nat
  BY Sizes
<1>4. order \in Bijection(1..ReplicationFactor, T)
  BY <1>1, <1>2, InOrderBijection
<1>5. \A i, j \in 1..ReplicationFactor : i < j => addr[order[i]] < addr[order[j]]
  BY <1>1, <1>2, InOrderIncreasing
<1>6. \A i \in Positions : i + 1 \in 1..ReplicationFactor /\ i \in Nat
  BY <1>3 DEF Positions
<1>7. /\ \A d \in daemons : /\ Rank(addr, daemons, d) \in 0..MaxIndex
                            /\ daemonVector[Rank(addr, daemons, d)] = d
      /\ \A i, j \in 0..MaxIndex : i < j => addr[daemonVector[i]] < addr[daemonVector[j]]
  BY VectorByRank
<1> HIDE DEF addr, daemons, order
<1>8. \A i \in Positions : order[i + 1] \in T /\ order[i + 1] \in daemons
  BY <1>1, <1>4, <1>6 DEF Bijection, Injection
<1>9. v \in [Positions -> 0..MaxIndex]
  BY <1>7, <1>8
<1>10. \A i \in Positions : daemonVector[v[i]] = order[i + 1]
  BY <1>7, <1>8
<1>11. ASSUME NEW i \in Positions, NEW j \in Positions, i < j
       PROVE  v[i] < v[j]
  <2>1. v[i] \in 0..MaxIndex /\ v[j] \in 0..MaxIndex
    BY <1>9
  <2>2. addr[daemonVector[v[i]]] < addr[daemonVector[v[j]]]
    BY <1>5, <1>6, <1>10, <1>11
  <2>3. addr[daemonVector[v[i]]] \in Nat /\ addr[daemonVector[v[j]]] \in Nat
    BY <1>2, <1>8, <1>10
  <2> HIDE DEF v
  <2>4. v[i] # v[j] /\ ~ (v[j] < v[i])
    BY <1>7, <2>1, <2>2, <2>3
  <2> QED
    BY <1>3, <2>1, <2>4
<1>12. v \in IndexVectors
  BY <1>9, <1>11, RoomBetween
<1>13. Chosen(v) = T
  <2>1. Chosen(v) = {order[i + 1] : i \in Positions}
    BY <1>10 DEF Chosen
  <2>2. ASSUME NEW d \in T
        PROVE  \E i \in Positions : order[i + 1] = d
    <3>1. PICK k \in 1..ReplicationFactor : order[k] = d
      BY <1>4 DEF Bijection, Surjection
    <3>2. k - 1 \in Positions /\ (k - 1) + 1 = k
      BY <1>3 DEF Positions
    <3> QED
      BY <3>1, <3>2
  <2> QED
    BY <1>8, <2>1, <2>2
<1> QED
  BY <1>12, <1>13

\* The order of the walk is the order in which candidate sets are enumerated.
LEMMA WalkOrder ==
  ASSUME Selectable(problem), InAddressOrder,
         NEW v \in IndexVectors, NEW w \in IndexVectors, LexLess(v, w)
  PROVE  EnumeratedBefore(problem.addr, Chosen(v), Chosen(w))
<1>1. /\ v \in [Positions -> 0..MaxIndex] /\ w \in [Positions -> 0..MaxIndex]
      /\ \A i, j \in Positions : i < j => v[i] + (j - i) <= v[j]
      /\ \A i, j \in Positions : i < j => w[i] + (j - i) <= w[j]
      /\ \A i \in Positions : v[i] \in Nat /\ w[i] \in Nat /\ i \in Nat
  BY IndexVectorRoom, Sizes DEF Positions
<1>2. PICK i \in Positions : v[i] < w[i] /\ \A j \in Positions : j < i => v[j] = w[j]
  BY DEF LexLess
<1>3. \A j, k \in 0..MaxIndex :
        /\ daemonVector[j] = daemonVector[k] => j = k
        /\ j < k => problem.addr[daemonVector[j]] < problem.addr[daemonVector[k]]
  BY VectorByRank
<1> DEFINE d == daemonVector[v[i]]
<1>4. ASSUME NEW j \in Positions, j >= i
      PROVE  w[j] > v[i]
  <2>1. j = i \/ w[i] + (j - i) <= w[j]
    BY <1>1, <1>4
  <2> QED
    BY <1>1, <1>2, <1>4, <2>1
<1>5. \A j \in Positions : w[j] # v[i]
  <2>1. ASSUME NEW j \in Positions, j < i
        PROVE  w[j] # v[i]
    <3>1. v[j] + (i - j) <= v[i] /\ w[j] = v[j]
      BY <1>1, <1>2, <2>1
    <3> QED
      BY <1>1, <2>1, <3>1
  <2> QED
    BY <1>1, <1>4, <2>1
<1>6. d \in Chosen(v) \ Chosen(w)
  <2>1. d \in Chosen(v)
    BY DEF Chosen
  <2>2. ASSUME d \in Chosen(w)
        PROVE  FALSE
    <3>1. PICK j \in Positions : d = daemonVector[w[j]]
      BY <2>2 DEF Chosen
    <3>2. v[i] \in 0..MaxIndex /\ w[j] \in 0..MaxIndex
      BY <1>1
    <3> QED
      BY <1>3, <1>5, <3>1, <3>2
  <2> QED
    BY <2>1, <2>2
<1>7. ASSUME NEW e \in Chosen(w) \ Chosen(v)
      PROVE  problem.addr[d] < problem.addr[e]
  <2>1. PICK j \in Positions : e = daemonVector[w[j]]
    BY <1>7 DEF Chosen
  <2>2. ~ (j < i)
    BY <1>2, <1>7, <2>1 DEF Chosen
  <2>3. v[i] < w[j] /\ v[i] \in 0..MaxIndex /\ w[j] \in 0..MaxIndex
    BY <1>1, <1>4, <2>2
  <2> QED
    BY <1>3, <2>1, <2>3
<1> QED
  BY <1>6, <1>7 DEF EnumeratedBefore

\* SelectsBest: when the walk is over, the selection kept has the greatest
\* distance among all sets of ReplicationFactor unplaced servers, and is the
\* last of them in address order: the loop implements IsSelected.
THEOREM WalkSelectsBest == Spec => []SelectsBest
<1>1. ASSUME WalkInv, pc \in {"accepted", "rejected"}
      PROVE  IsSelected(problem.topology, problem.addr, problem.daemons, Chosen(bestSelection))
  <2> DEFINE S == Chosen(bestSelection)
             dist(T) == distanceFunction(problem.topology, problem.daemons, T)
  <2>1. /\ Selectable(problem) /\ InAddressOrder
        /\ daemonVector \in [0..MaxIndex -> problem.daemons]
        /\ currentSelection \in IndexVectors /\ bestSelection \in IndexVectors
        /\ ~ HasNextIndexVector(currentSelection)
        /\ bestDistance = DistanceOf(bestSelection)
    BY <1>1 DEF WalkInv, TypeOK
  <2>2. S \in Candidates(problem.daemons)
    BY <2>1, ChosenIsCandidate
  <2>3. ASSUME NEW T \in Candidates(problem.daemons)
        PROVE  \/ DistanceLess(dist(T), dist(S))
               \/ dist(T) = dist(S) /\ (T = S \/ EnumeratedBefore(problem.addr, T, S))
    <3>1. PICK v \in IndexVectors : Chosen(v) = T
      BY <2>1, CandidateIsChosen
    <3>2. Evaluated(v)
      BY <1>1, <2>1, LexTotal, LastVector DEF Evaluated
    <3>3. /\ DistanceAtLeast(dist(S), dist(T))
          /\ LexLess(bestSelection, v) => DistanceLess(dist(T), dist(S))
      BY <1>1, <2>1, <3>1, <3>2 DEF WalkInv, BestSoFar, DistanceOf
    <3>4. dist(S) \in Distances /\ dist(T) \in Distances
      BY <2>1, <3>1, ChosenType DEF DistanceOf
    <3> HIDE DEF dist
    <3>5. dist(T) = dist(S) \/ DistanceLess(dist(T), dist(S))
      BY <3>3, <3>4, DistanceTotal DEF DistanceAtLeast
    <3>6. v = bestSelection \/ LexLess(v, bestSelection) \/ LexLess(bestSelection, v)
      BY <2>1, LexTotal
    <3>7. LexLess(v, bestSelection) => EnumeratedBefore(problem.addr, T, S)
      BY <2>1, <3>1, WalkOrder
    <3> QED
      BY <3>1, <3>3, <3>5, <3>6, <3>7
  <2> QED
    BY <2>2, <2>3 DEF IsSelected
<1>2. WalkInv => SelectsBest
  BY <1>1 DEF SelectsBest
<1> QED
  BY WalkSound, <1>2, PTL

\* NoSpreadSetOverlooked: with the default of two racks, or fewer, and racks that
\* are in one data center each, selectReplicaSet never gives up while a set that
\* satisfies hosts, stores and racks could be formed.
THEOREM SpreadFound ==
  ASSUME MinRacks <= 2, RacksNest
  PROVE  Spec => []NoSpreadSetOverlooked
<1> DEFINE ProblemGiven == problem \in Problems
<1>1. Spec => []ProblemGiven
  <2>1. Init => ProblemGiven
    BY DEF Init
  <2>2. ProblemGiven /\ [Next]_vars => ProblemGiven'
    BY DEF Next, vars, Evaluate, Advance, Return
  <2> QED
    BY <2>1, <2>2, PTL DEF Spec
<1> DEFINE Refused == pc = "rejected" =>
               ~ isAcceptableReplicaSet(problem.topology, problem.age, Chosen(bestSelection))
<1>2. Spec => []Refused
  <2>1. Init => Refused
    BY DEF Init
  <2>2. Refused /\ [Next]_vars => Refused'
    <3>1. ASSUME Refused, UNCHANGED vars PROVE Refused'
      BY <3>1 DEF vars, Chosen, isAcceptableReplicaSet, isAcceptableHostLocality,
                  isAcceptableRackLocality, isAcceptableDataCenterLocality,
                  SpansRacks, WaitedForRacks, RackOf
    <3>2. ASSUME Evaluate \/ Advance PROVE Refused'
      BY <3>2 DEF Evaluate, Advance
    <3>3. ASSUME Return PROVE Refused'
      BY <3>3 DEF Return, Chosen, isAcceptableReplicaSet, isAcceptableHostLocality,
                  isAcceptableRackLocality, isAcceptableDataCenterLocality,
                  SpansRacks, WaitedForRacks, RackOf
    <3> QED
      BY <3>1, <3>2, <3>3 DEF Next
  <2> QED
    BY <2>1, <2>2, PTL DEF Spec
<1>3. ASSUME ProblemGiven, Refused, SelectsBest
      PROVE  NoSpreadSetOverlooked
  <2>1. SUFFICES ASSUME pc = "rejected",
                        NEW T \in Candidates(problem.daemons),
                        isAcceptableHostLocality(problem.topology, T),
                        SpansRacks(problem.topology, T)
                 PROVE  FALSE
    BY DEF NoSpreadSetOverlooked
  <2> DEFINE S == Chosen(bestSelection)
  <2>2. IsSelected(problem.topology, problem.addr, problem.daemons, S)
    BY <1>3, <2>1 DEF SelectsBest
  <2>3. IsFiniteSet(problem.daemons)
    BY <1>3, ProblemsAssumption DEF Selectable
  <2>4. /\ problem.daemons \subseteq DOMAIN problem.topology.host
        /\ \A d, e \in problem.daemons :
             RackOf(problem.topology)[d] = RackOf(problem.topology)[e]
               => DataCenterOf(problem.topology)[d] = DataCenterOf(problem.topology)[e]
    BY <1>3 DEF RacksNest
  <2> HIDE DEF S
  <2>5. isAcceptableHostLocality(problem.topology, S) /\ SpansRacks(problem.topology, S)
    BY <2>1, <2>2, <2>3, <2>4, SpreadNotOverlooked
  <2> QED
    BY <1>3, <2>1, <2>5 DEF S, isAcceptableReplicaSet, isAcceptableRackLocality,
                            isAcceptableDataCenterLocality
<1> QED
  BY <1>1, <1>2, <1>3, WalkSelectsBest, PTL
==============================================================================
