------------------------ MODULE DistanceFunctionProofs ------------------------
(***************************************************************************)
(* The loops of distanceFunction compute the distance that Placement       *)
(* defines by counting, for every placement of any number of servers and   *)
(* in whatever order they are visited.                                     *)
(***************************************************************************)
EXTENDS DistanceFunction, PlacementProofs

------------------------------------------------------------------------------
(* What one iteration adds to a count.                                      *)

\* The members of S that a makes a pair of Q with.
Partners(S, a, Q) == {b \in S \ {a} : {a, b} \in Q}

\* Leaving a out, the pairs in Q lose those of a with another member.
LEMMA PairsWithout ==
  ASSUME NEW S, IsFiniteSet(S), NEW a \in S, NEW Q
  PROVE  /\ Cardinality(kSubset(2, S) \cap Q) \in Nat
         /\ Cardinality(kSubset(2, S \ {a}) \cap Q) \in Nat
         /\ Cardinality(Partners(S, a, Q)) \in Nat
         /\ Cardinality(kSubset(2, S) \cap Q) =
              Cardinality(kSubset(2, S \ {a}) \cap Q) + Cardinality(Partners(S, a, Q))
<1> DEFINE all == kSubset(2, S) \cap Q
           rest == kSubset(2, S \ {a}) \cap Q
           others == Partners(S, a, Q)
           withA == {{a, b} : b \in others}
<1>1. IsFiniteSet(all) /\ IsFiniteSet(rest)
  <2>1. IsFiniteSet(S \ {a})
    BY FS_RemoveElement
  <2>2. all \in SUBSET kSubset(2, S) /\ rest \in SUBSET kSubset(2, S \ {a})
    OBVIOUS
  <2> QED
    BY <2>1, <2>2, PairsFinite, FS_Subset
<1>2. IsFiniteSet(others)
  <2>1. others \in SUBSET S
    BY DEF Partners
  <2> QED
    BY <2>1, FS_Subset
<1>3. IsFiniteSet(withA) /\ Cardinality(withA) = Cardinality(others)
  <2>1. ASSUME NEW b \in others, NEW c \in others, {a, b} = {a, c}
        PROVE  b = c
    BY <2>1 DEF Partners
  <2>2. [b \in others |-> {a, b}] \in Bijection(others, withA)
    BY <2>1 DEF Bijection, Injection, IsInjective, Surjection
  <2> QED
    BY <1>2, <2>2, FS_Bijection DEF ExistsBijection
<1>4. all = rest \cup withA
  <2>1. ASSUME NEW p \in all, a \in p
        PROVE  p \in withA
    <3>1. PICK c \in S, b \in S : c # b /\ p = {c, b}
      BY PairMembers
    <3>2. \E o \in S \ {a} : p = {a, o}
      BY <2>1, <3>1
    <3> QED
      BY <3>2 DEF Partners
  <2>2. ASSUME NEW p \in all, a \notin p
        PROVE  p \in rest
    BY <2>2 DEF kSubset
  <2>3. ASSUME NEW p \in rest
        PROVE  p \in all
    BY DEF kSubset
  <2>4. ASSUME NEW p \in withA
        PROVE  p \in all
    BY PairOf DEF Partners
  <2> HIDE DEF all, rest, withA
  <2> QED
    BY <2>1, <2>2, <2>3, <2>4
<1>5. rest \cap withA = {}
  BY DEF kSubset, Partners
<1> HIDE DEF all, rest, withA, others
<1>6. Cardinality(all) = Cardinality(rest) + Cardinality(withA) - Cardinality(rest \cap withA)
  BY <1>1, <1>3, <1>4, FS_Union
<1>7. Cardinality(rest \cap withA) = 0
  BY <1>5, FS_EmptySet
<1>8. Cardinality(all) \in Nat /\ Cardinality(rest) \in Nat /\ Cardinality(others) \in Nat
  BY <1>1, <1>2, FS_CardinalityType
<1>9. Cardinality(all) = Cardinality(rest) + Cardinality(others)
  BY <1>3, <1>6, <1>7, <1>8
<1> QED
  BY <1>8, <1>9 DEF all, rest, others

\* The relief the members V of S have taken: Placement's PressureRelief when V
\* is all of S.
Taken(D, S, f, V) ==
  {lk \in {f[d] : d \in S} \X (1..Cardinality(S)) :
     /\ lk[2] <= Located(V, f, lk[1])
     /\ lk[2] * LoadLimit(D) <= Located(D, f, lk[1])}

LEMMA TakenFinite ==
  ASSUME NEW D, NEW S, IsFiniteSet(S), NEW f, NEW V
  PROVE  IsFiniteSet(Taken(D, S, f, V)) /\ Cardinality(Taken(D, S, f, V)) \in Nat
<1>1. [d \in S |-> f[d]] \in Surjection(S, {f[d] : d \in S})
  BY DEF Surjection
<1>2. IsFiniteSet({f[d] : d \in S}) /\ IsFiniteSet(1..Cardinality(S))
  BY <1>1, FS_Surjection, FS_CardinalityType, FS_Interval
<1>3. IsFiniteSet({f[d] : d \in S} \X (1..Cardinality(S)))
  BY <1>2, FS_Product
<1>4. Taken(D, S, f, V) \in SUBSET ({f[d] : d \in S} \X (1..Cardinality(S)))
  BY DEF Taken
<1>5. IsFiniteSet(Taken(D, S, f, V))
  BY <1>3, <1>4, FS_Subset
<1> QED
  BY <1>5, FS_CardinalityType

LEMMA LocatedOneMore ==
  ASSUME NEW V, IsFiniteSet(V), NEW d, d \notin V, NEW f
  PROVE  \A l : /\ f[d] = l => Located(V \cup {d}, f, l) = Located(V, f, l) + 1
                /\ f[d] # l => Located(V \cup {d}, f, l) = Located(V, f, l)
<1> SUFFICES ASSUME NEW l
             PROVE  /\ f[d] = l => Located(V \cup {d}, f, l) = Located(V, f, l) + 1
                    /\ f[d] # l => Located(V \cup {d}, f, l) = Located(V, f, l)
  OBVIOUS
<1> DEFINE there == {e \in V : f[e] = l}
<1>1. there \in SUBSET V
  OBVIOUS
<1>2. IsFiniteSet(there) /\ d \notin there
  BY <1>1, FS_Subset
<1>3. CASE f[d] = l
  <2>1. {e \in V \cup {d} : f[e] = l} = there \cup {d}
    BY <1>3
  <2>2. Cardinality(there \cup {d}) = Cardinality(there) + 1
    BY <1>2, FS_AddElement
  <2> QED
    BY <1>3, <2>1, <2>2 DEF Located
<1>4. CASE f[d] # l
  <2>1. {e \in V \cup {d} : f[e] = l} = there
    BY <1>4
  <2> QED
    BY <1>4, <2>1 DEF Located
<1> QED
  BY <1>3, <1>4

\* The (m+1)-st member at a location takes relief if the load allows it m+1 times.
LEMMA TakenOneMore ==
  ASSUME NEW D, IsFiniteSet(D), NEW S, IsFiniteSet(S), NEW f,
         NEW V \in SUBSET S, NEW d \in S \ V
  PROVE  LET more == (Located(V, f, f[d]) + 1) * LoadLimit(D) <= Located(D, f, f[d])
         IN  Cardinality(Taken(D, S, f, V \cup {d})) =
               Cardinality(Taken(D, S, f, V)) + (IF more THEN 1 ELSE 0)
<1> DEFINE m == Located(V, f, f[d])
           more == (m + 1) * LoadLimit(D) <= Located(D, f, f[d])
           next == <<f[d], m + 1>>
<1>1. IsFiniteSet(V) /\ IsFiniteSet(V \cup {d}) /\ V \cup {d} \in SUBSET S
  BY FS_Subset, FS_AddElement
<1>2. m \in Nat /\ \A l : Located(V, f, l) \in Nat
  BY <1>1, LocatedCounts
<1>3. \A l : /\ f[d] = l => Located(V \cup {d}, f, l) = Located(V, f, l) + 1
             /\ f[d] # l => Located(V \cup {d}, f, l) = Located(V, f, l)
  <2> SUFFICES ASSUME NEW l
               PROVE  /\ f[d] = l => Located(V \cup {d}, f, l) = Located(V, f, l) + 1
                      /\ f[d] # l => Located(V \cup {d}, f, l) = Located(V, f, l)
    OBVIOUS
  <2>1. IsFiniteSet(V) /\ d \notin V
    BY <1>1
  <2> QED
    BY <2>1, LocatedOneMore
<1>4. m + 1 \in 1..Cardinality(S)
  <2>1. Cardinality(V \cup {d}) <= Cardinality(S)
    BY <1>1, FS_Subset
  <2>2. Located(V \cup {d}, f, f[d]) <= Cardinality(V \cup {d})
    BY <1>1, LocatedCounts
  <2>3. Located(V \cup {d}, f, f[d]) = m + 1
    BY <1>3
  <2>4. Cardinality(V \cup {d}) \in Nat /\ Cardinality(S) \in Nat
    BY <1>1, FS_CardinalityType
  <2> HIDE DEF m
  <2> QED
    BY <1>2, <2>1, <2>2, <2>3, <2>4
<1>5. next \notin Taken(D, S, f, V)
  BY <1>2 DEF Taken
<1>6. Taken(D, S, f, V \cup {d}) = Taken(D, S, f, V) \cup (IF more THEN {next} ELSE {})
  <2>1. ASSUME NEW lk \in {f[e] : e \in S} \X (1..Cardinality(S))
        PROVE  lk \in Taken(D, S, f, V \cup {d}) <=>
                 lk \in Taken(D, S, f, V) \/ (more /\ lk = next)
    <3>1. lk = <<lk[1], lk[2]>> /\ lk[2] \in Nat
      OBVIOUS
    <3>2. CASE lk[1] # f[d]
      BY <1>3, <3>1, <3>2 DEF Taken
    <3>3. CASE lk[1] = f[d]
      <4>1. lk[2] <= Located(V \cup {d}, f, lk[1]) <=> lk[2] <= m \/ lk[2] = m + 1
        <5>1. Located(V \cup {d}, f, lk[1]) = m + 1 /\ m \in Nat
          BY <1>2, <1>3, <3>3
        <5> HIDE DEF m
        <5> QED
          BY <3>1, <5>1
      <4>2. lk = next <=> lk[2] = m + 1
        BY <3>1, <3>3
      <4> QED
        BY <3>3, <4>1, <4>2 DEF Taken
    <3> QED
      BY <3>2, <3>3
  <2>2. next \in {f[e] : e \in S} \X (1..Cardinality(S))
    BY <1>4
  <2>3. \A U : Taken(D, S, f, U) \subseteq {f[e] : e \in S} \X (1..Cardinality(S))
    BY DEF Taken
  <2> HIDE DEF more, next
  <2> QED
    BY <2>1, <2>2, <2>3
<1>7. IsFiniteSet(Taken(D, S, f, V)) /\ Cardinality(Taken(D, S, f, V)) \in Nat
  BY TakenFinite
<1> HIDE DEF next
<1>8. CASE more
  <2>1. Cardinality(Taken(D, S, f, V) \cup {next}) = Cardinality(Taken(D, S, f, V)) + 1
    BY <1>5, <1>7, FS_AddElement
  <2> QED
    BY <1>6, <1>8, <2>1
<1>9. CASE ~ more
  <2>1. Taken(D, S, f, V \cup {d}) = Taken(D, S, f, V)
    BY <1>6, <1>9
  <2>2. Cardinality(Taken(D, S, f, V)) + 0 = Cardinality(Taken(D, S, f, V))
    BY <1>7
  <2> QED
    BY <1>9, <2>1, <2>2
<1> QED
  BY <1>8, <1>9

\* The other members of S that are elsewhere than a.
Apart(S, a, f) == {b \in S \ {a} : f[a] # f[b]}

\* Leaving a out, the differing pairs lose those of a with a member elsewhere.
LEMMA DifferingWithout ==
  ASSUME NEW S, IsFiniteSet(S), NEW a \in S, NEW f
  PROVE  /\ Cardinality(DifferingPairs(S \ {a}, f)) \in Nat
         /\ Cardinality(Apart(S, a, f)) \in Nat
         /\ Cardinality(DifferingPairs(S, f)) =
              Cardinality(DifferingPairs(S \ {a}, f)) + Cardinality(Apart(S, a, f))
<1> DEFINE Q == DifferingPairs(S, f)
<1>1. Q = kSubset(2, S) \cap Q
  BY DEF DifferingPairs
<1>2. DifferingPairs(S \ {a}, f) = kSubset(2, S \ {a}) \cap Q
  BY DEF DifferingPairs, kSubset
<1>3. Apart(S, a, f) = Partners(S, a, Q)
  <2>1. ASSUME NEW b \in S \ {a}
        PROVE  {a, b} \in Q <=> f[a] # f[b]
    BY PairOf DEF DifferingPairs
  <2> QED
    BY <2>1 DEF Partners, Apart
<1> HIDE DEF Q
<1>4. /\ Cardinality(kSubset(2, S) \cap Q) \in Nat
      /\ Cardinality(kSubset(2, S \ {a}) \cap Q) \in Nat
      /\ Cardinality(Partners(S, a, Q)) \in Nat
      /\ Cardinality(kSubset(2, S) \cap Q) =
           Cardinality(kSubset(2, S \ {a}) \cap Q) + Cardinality(Partners(S, a, Q))
  BY PairsWithout
<1>5. /\ Cardinality(Q) = Cardinality(kSubset(2, S) \cap Q)
      /\ Cardinality(DifferingPairs(S \ {a}, f)) = Cardinality(kSubset(2, S \ {a}) \cap Q)
  BY <1>1, <1>2
<1> QED
  BY <1>3, <1>4, <1>5 DEF Q

LEMMA HostsStoresWithout ==
  ASSUME NEW t, NEW S, IsFiniteSet(S), NEW a \in S
  PROVE  LET apart == Apart(S, a, t.host) \cap Apart(S, a, t.store)
         IN  /\ Cardinality(DifferingHostsStores(t, S \ {a})) \in Nat
             /\ Cardinality(apart) \in Nat
             /\ Cardinality(DifferingHostsStores(t, S)) =
                  Cardinality(DifferingHostsStores(t, S \ {a})) + Cardinality(apart)
<1> DEFINE Q == DifferingHostsStores(t, S)
           apart == Apart(S, a, t.host) \cap Apart(S, a, t.store)
<1>1. Q = kSubset(2, S) \cap Q
  BY DEF DifferingHostsStores, DifferingPairs
<1>2. DifferingHostsStores(t, S \ {a}) = kSubset(2, S \ {a}) \cap Q
  BY DEF DifferingHostsStores, DifferingPairs, kSubset
<1>3. apart = Partners(S, a, Q)
  <2>1. ASSUME NEW b \in S \ {a}
        PROVE  {a, b} \in Q <=> t.host[a] # t.host[b] /\ t.store[a] # t.store[b]
    BY PairOf DEF DifferingHostsStores, DifferingPairs
  <2> QED
    BY <2>1 DEF Partners, Apart
<1> HIDE DEF Q, apart
<1>4. /\ Cardinality(kSubset(2, S) \cap Q) \in Nat
      /\ Cardinality(kSubset(2, S \ {a}) \cap Q) \in Nat
      /\ Cardinality(Partners(S, a, Q)) \in Nat
      /\ Cardinality(kSubset(2, S) \cap Q) =
           Cardinality(kSubset(2, S \ {a}) \cap Q) + Cardinality(Partners(S, a, Q))
  BY PairsWithout
<1>5. /\ Cardinality(Q) = Cardinality(kSubset(2, S) \cap Q)
      /\ Cardinality(DifferingHostsStores(t, S \ {a})) = Cardinality(kSubset(2, S \ {a}) \cap Q)
  BY <1>1, <1>2
<1>6. /\ Cardinality(DifferingHostsStores(t, S \ {a})) \in Nat
      /\ Cardinality(apart) \in Nat
      /\ Cardinality(Q) = Cardinality(DifferingHostsStores(t, S \ {a})) + Cardinality(apart)
  BY <1>3, <1>4, <1>5
<1> QED
  BY <1>6 DEF Q, apart

------------------------------------------------------------------------------
(* The loops.                                                               *)

\* The members whose pairs are yet to be counted, and those that have had
\* their turn in the second loop.
Unpaired == IF pc = "pairs" THEN todo ELSE {}
Visited  == IF pc = "pairs" THEN {} ELSE input.candidate \ todo

ReliefTaken(kind) ==
  Cardinality(Taken(input.daemons, input.candidate, Location(kind), Visited))

\* A location whose load allowed relief for each member visited there has lost
\* just that much; any other is below the limit.
LoadLeft(kind, l) ==
  LET taken == Located(Visited, Location(kind), l) * LoadLimit(input.daemons)
      there == Located(input.daemons, Location(kind), l)
  IN  /\ taken <= there => load[kind][l] = there - taken
      /\ there < taken  => load[kind][l] < LoadLimit(input.daemons)

LocationsOf(kind) == {Location(kind)[d] : d \in input.daemons}

PairsSoFar ==
  LET t == input.topology
      all == input.candidate
  IN  /\ distance[1] + Cardinality(DifferingHostsStores(t, Unpaired)) =
           Cardinality(DifferingHostsStores(t, all))
      /\ distance[4] + Cardinality(DifferingPairs(Unpaired, RackOf(t))) =
           Cardinality(DifferingPairs(all, RackOf(t)))
      /\ distance[5] + Cardinality(DifferingPairs(Unpaired, DataCenterOf(t))) =
           Cardinality(DifferingPairs(all, DataCenterOf(t)))

ReliefSoFar ==
  /\ distance[2] = ReliefTaken("rack")
  /\ distance[3] = ReliefTaken("dataCenter")
  /\ distance[6] = ReliefTaken("host") + ReliefTaken("store")

LoadsSoFar ==
  IF pc = "pairs"
  THEN load = [kind \in Kinds |-> <<>>]
  ELSE /\ DOMAIN load = Kinds
       /\ \A kind \in Kinds : /\ load[kind] \in [LocationsOf(kind) -> Nat]
                              /\ \A l \in LocationsOf(kind) : LoadLeft(kind, l)

CountInv ==
  /\ input \in Inputs
  /\ todo \subseteq input.candidate
  /\ pc \in {"pairs", "loads", "relief", "done"}
  /\ pc = "done" => todo = {}
  /\ distance \in Distances
  /\ PairsSoFar
  /\ ReliefSoFar
  /\ LoadsSoFar

LEMMA InputFinite ==
  ASSUME input \in Inputs
  PROVE  /\ IsFiniteSet(input.daemons) /\ IsFiniteSet(input.candidate)
         /\ input.candidate \subseteq input.daemons
         /\ \A d \in input.daemons : input.addr[d] \in Nat
<1>1. /\ IsFiniteSet(input.daemons) /\ input.candidate \subseteq input.daemons
      /\ \A d \in input.daemons : input.addr[d] \in Nat
  BY InputsAssumption DEF Measurable
<1> QED
  BY <1>1, FS_Subset

LEMMA NextVisitedMember ==
  ASSUME input \in Inputs, todo \subseteq input.candidate, todo # {}
  PROVE  NextVisited \in todo
<1>1. \A d \in todo : input.addr[d] \in Nat
  BY InputFinite
<1>2. PICK least \in {input.addr[d] : d \in todo} : \A n \in {input.addr[d] : d \in todo} : least <= n
  <2>1. {input.addr[d] : d \in todo} \in SUBSET Nat /\ {input.addr[d] : d \in todo} # {}
    BY <1>1
  <2> QED
    BY <2>1, LeastNumber
<1>3. \E d \in todo : IsFirst(input.addr, todo, d)
  BY <1>2 DEF IsFirst
<1> QED
  BY <1>3 DEF NextVisited

LEMMA NothingCounted ==
  /\ \A t : Cardinality(DifferingHostsStores(t, {})) = 0
  /\ \A f : Cardinality(DifferingPairs({}, f)) = 0
<1>1. \A f : DifferingPairs({}, f) = {}
  BY DEF DifferingPairs, kSubset
<1>2. \A t : DifferingHostsStores(t, {}) = {}
  BY <1>1 DEF DifferingHostsStores
<1> QED
  BY <1>1, <1>2, FS_EmptySet

LEMMA NothingTaken ==
  ASSUME NEW D, NEW S, IsFiniteSet(S), NEW f
  PROVE  Cardinality(Taken(D, S, f, {})) = 0
<1>1. \A l : Located({}, f, l) = 0
  BY FS_EmptySet DEF Located
<1>2. Taken(D, S, f, {}) = {}
  BY <1>1 DEF Taken
<1> QED
  BY <1>2, FS_EmptySet

LEMMA CountInit == Init => CountInv
<1> SUFFICES ASSUME Init PROVE CountInv
  OBVIOUS
<1>1. /\ input \in Inputs /\ todo = input.candidate /\ pc = "pairs"
      /\ distance = <<0, 0, 0, 0, 0, 0>> /\ load = [kind \in Kinds |-> <<>>]
  BY DEF Init
<1>2. distance \in Distances /\ \A i \in 1..6 : distance[i] = 0
  BY <1>1 DEF Distances
<1>3. PairsSoFar
  <2>1. IsFiniteSet(todo)
    BY <1>1, InputFinite
  <2>2. /\ \A f : Cardinality(DifferingPairs(todo, f)) \in Nat
        /\ \A t : Cardinality(DifferingHostsStores(t, todo)) \in Nat
    BY <2>1, PairsCounted DEF DifferingPairs, DifferingHostsStores
  <2> QED
    BY <1>1, <1>2, <2>2 DEF PairsSoFar, Unpaired
<1>4. ReliefSoFar
  <2>1. \A kind : ReliefTaken(kind) = 0
    BY <1>1, InputFinite, NothingTaken DEF ReliefTaken, Visited
  <2> QED
    BY <1>2, <2>1 DEF ReliefSoFar
<1> QED
  BY <1>1, <1>2, <1>3, <1>4 DEF CountInv, LoadsSoFar

LEMMA CountPairsStep ==
  ASSUME CountInv, CountPairs
  PROVE  CountInv'
<1> DEFINE a == NextVisited
           t == input.topology
           hosts == Apart(todo, a, t.host)
           stores == Apart(todo, a, t.store)
           racks == Apart(todo, a, RackOf(t))
           dataCenters == Apart(todo, a, DataCenterOf(t))
<1>1. /\ input \in Inputs /\ todo \subseteq input.candidate /\ pc = "pairs" /\ todo # {}
      /\ distance \in Distances
      /\ UNCHANGED <<input, load, pc>> /\ todo' = todo \ {a}
  BY DEF CountInv, CountPairs
<1>2. a \in todo /\ IsFiniteSet(todo)
  BY <1>1, InputFinite, NextVisitedMember, FS_Subset
<1>3. distance' = [distance EXCEPT ![1] = @ + Cardinality(hosts \cap stores),
                                   ![4] = @ + Cardinality(racks),
                                   ![5] = @ + Cardinality(dataCenters)]
  <2> DEFINE elsewhere(kind) == {b \in todo \ {a} : Differ(kind, a, b)}
  <2>1. /\ elsewhere("host") = hosts /\ elsewhere("store") = stores
        /\ elsewhere("rack") = racks /\ elsewhere("dataCenter") = dataCenters
    BY DEF Differ, Location, Apart
  <2>2. distance' = [distance EXCEPT ![1] = @ + Cardinality(elsewhere("host") \cap elsewhere("store")),
                                     ![4] = @ + Cardinality(elsewhere("rack")),
                                     ![5] = @ + Cardinality(elsewhere("dataCenter"))]
    BY DEF CountPairs
  <2> HIDE DEF elsewhere, hosts, stores, racks, dataCenters
  <2> QED
    BY <2>1, <2>2
<1>4. /\ Cardinality(DifferingHostsStores(t, todo \ {a})) \in Nat
      /\ Cardinality(hosts \cap stores) \in Nat
      /\ Cardinality(DifferingHostsStores(t, todo)) =
           Cardinality(DifferingHostsStores(t, todo \ {a})) + Cardinality(hosts \cap stores)
  BY <1>2, HostsStoresWithout
<1>5. /\ Cardinality(DifferingPairs(todo \ {a}, RackOf(t))) \in Nat
      /\ Cardinality(racks) \in Nat
      /\ Cardinality(DifferingPairs(todo, RackOf(t))) =
           Cardinality(DifferingPairs(todo \ {a}, RackOf(t))) + Cardinality(racks)
  BY <1>2, DifferingWithout
<1>6. /\ Cardinality(DifferingPairs(todo \ {a}, DataCenterOf(t))) \in Nat
      /\ Cardinality(dataCenters) \in Nat
      /\ Cardinality(DifferingPairs(todo, DataCenterOf(t))) =
           Cardinality(DifferingPairs(todo \ {a}, DataCenterOf(t))) + Cardinality(dataCenters)
  BY <1>2, DifferingWithout
<1> HIDE DEF a, hosts, stores, racks, dataCenters
<1>7. \A i \in 1..6 : distance[i] \in Nat
  BY <1>1 DEF Distances
<1>8. /\ distance' \in Distances
      /\ distance'[1] = distance[1] + Cardinality(hosts \cap stores)
      /\ distance'[4] = distance[4] + Cardinality(racks)
      /\ distance'[5] = distance[5] + Cardinality(dataCenters)
      /\ distance'[2] = distance[2] /\ distance'[3] = distance[3] /\ distance'[6] = distance[6]
  BY <1>1, <1>3, <1>4, <1>5, <1>6, <1>7 DEF Distances
<1>9. PairsSoFar'
  <2>1. Unpaired = todo /\ Unpaired' = todo \ {a}
    BY <1>1 DEF Unpaired
  <2>2. t' = t /\ input.candidate' = input.candidate
    BY <1>1
  <2>3. /\ distance'[1] + Cardinality(DifferingHostsStores(t, todo \ {a})) =
             Cardinality(DifferingHostsStores(t, input.candidate))
        /\ distance'[4] + Cardinality(DifferingPairs(todo \ {a}, RackOf(t))) =
             Cardinality(DifferingPairs(input.candidate, RackOf(t)))
        /\ distance'[5] + Cardinality(DifferingPairs(todo \ {a}, DataCenterOf(t))) =
             Cardinality(DifferingPairs(input.candidate, DataCenterOf(t)))
    BY <1>4, <1>5, <1>6, <1>7, <1>8, <2>1 DEF CountInv, PairsSoFar
  <2> QED
    BY <1>1, <2>1, <2>3 DEF PairsSoFar
<1>10. ReliefSoFar'
  <2>1. \A kind : ReliefTaken(kind)' = ReliefTaken(kind)
    BY <1>1 DEF ReliefTaken, Visited, Location
  <2> QED
    BY <1>8, <2>1 DEF CountInv, ReliefSoFar, ReliefTaken
<1> QED
  BY <1>1, <1>8, <1>9, <1>10 DEF CountInv, LoadsSoFar

LEMMA CountLoadsStep ==
  ASSUME CountInv, CountLoads
  PROVE  CountInv'
<1>1. /\ input \in Inputs /\ pc = "pairs" /\ todo = {} /\ distance \in Distances
      /\ UNCHANGED <<input, distance>> /\ todo' = input.candidate /\ pc' = "relief"
  BY DEF CountInv, CountLoads
<1>2. Unpaired = {} /\ Unpaired' = {} /\ Visited = {} /\ Visited' = {}
  BY <1>1 DEF Unpaired, Visited
<1>3. \A kind : Location(kind)' = Location(kind)
  BY <1>1 DEF Location
<1>4. \A kind : ReliefTaken(kind)' = ReliefTaken(kind)
  BY <1>1, <1>2, <1>3 DEF ReliefTaken
<1>5. PairsSoFar'
  BY <1>1, <1>2 DEF CountInv, PairsSoFar
<1>6. ReliefSoFar'
  BY <1>1, <1>4 DEF CountInv, ReliefSoFar, ReliefTaken
<1>7. LoadsSoFar'
  <2>1. load' = [kind \in Kinds |->
                   [l \in LocationsOf(kind) |-> Located(input.daemons, Location(kind), l)]]
    BY DEF CountLoads, LocationsOf, Located
  <2>2. /\ LoadLimit(input.daemons) \in Nat
        /\ \A f, l : Located(input.daemons, f, l) \in Nat
    BY <1>1, InputFinite, LimitCovers, LocatedCounts
  <2>3. \A f, l : Located({}, f, l) = 0
    BY FS_EmptySet DEF Located
  <2>4. \A kind \in Kinds : load'[kind] \in [LocationsOf(kind) -> Nat]
    BY <2>1, <2>2
  <2>5. \A kind \in Kinds : \A l \in LocationsOf(kind) :
           load'[kind][l] = Located(input.daemons, Location(kind), l)
    BY <2>1
  <2>6. \A kind \in Kinds : \A l \in LocationsOf(kind) :
          LET taken == Located({}, Location(kind), l) * LoadLimit(input.daemons)
              there == Located(input.daemons, Location(kind), l)
          IN  /\ taken <= there => load'[kind][l] = there - taken
              /\ there < taken  => load'[kind][l] < LoadLimit(input.daemons)
    BY <2>2, <2>3, <2>5
  <2>7. \A kind : LocationsOf(kind)' = LocationsOf(kind)
    BY <1>1, <1>3 DEF LocationsOf
  <2>8. DOMAIN load' = Kinds
    BY <2>1
  <2> QED
    BY <1>1, <1>2, <1>3, <2>4, <2>6, <2>7, <2>8 DEF LoadsSoFar, LoadLeft
<1> QED
  BY <1>1, <1>5, <1>6, <1>7 DEF CountInv

\* What one member does to the load of one kind of location, and that it takes
\* relief exactly when its location has load left for all members visited there.
LEMMA OneRelief ==
  ASSUME CountInv, Relieve, NEW kind \in Kinds
  PROVE  LET D == input.daemons
             f == Location(kind)
             l == f[NextVisited]
         IN  /\ kind \in Relieved(NextVisited) <=>
                  (Located(Visited, f, l) + 1) * LoadLimit(D) <= Located(D, f, l)
             /\ load'[kind] \in [LocationsOf(kind) -> Nat]
             /\ \A k \in LocationsOf(kind) :
                  LET taken == Located(Visited \cup {NextVisited}, f, k) * LoadLimit(D)
                      there == Located(D, f, k)
                  IN  /\ taken <= there => load'[kind][k] = there - taken
                      /\ there < taken  => load'[kind][k] < LoadLimit(D)
<1> DEFINE d == NextVisited
           D == input.daemons
           f == Location(kind)
           L == LoadLimit(D)
           loads == load[kind]
           there(k) == Located(D, f, k)
           visited(k) == Located(Visited, f, k)
<1>1. /\ input \in Inputs /\ todo \subseteq input.candidate /\ pc = "relief" /\ todo # {}
      /\ load' = DrawnDown(d)
  BY DEF CountInv, Relieve
<1>2. d \in todo /\ d \in D /\ d \notin Visited /\ Visited \subseteq input.candidate
  BY <1>1, InputFinite, NextVisitedMember DEF Visited
<1>3. IsFiniteSet(D) /\ IsFiniteSet(Visited)
  BY <1>1, <1>2, InputFinite, FS_Subset
<1>4. /\ L \in Nat
      /\ \A k : there(k) \in Nat /\ visited(k) \in Nat
  BY <1>3, LimitCovers, LocatedCounts
<1>5. /\ loads \in [LocationsOf(kind) -> Nat]
      /\ \A k \in LocationsOf(kind) :
           /\ visited(k) * L <= there(k) => loads[k] = there(k) - visited(k) * L
           /\ there(k) < visited(k) * L  => loads[k] < L
  BY <1>1 DEF CountInv, LoadsSoFar, LoadLeft
<1>6. f[d] \in LocationsOf(kind)
  BY <1>2 DEF LocationsOf
<1>7. \A k : /\ f[d] = k => Located(Visited \cup {d}, f, k) = visited(k) + 1
             /\ f[d] # k => Located(Visited \cup {d}, f, k) = visited(k)
  BY <1>2, <1>3, LocatedOneMore
<1>8. kind \in Relieved(d) <=> loads[f[d]] >= L
  BY DEF Relieved
<1>9. load'[kind] = IF kind \in Relieved(d) THEN [loads EXCEPT ![f[d]] = @ - L] ELSE loads
  BY <1>1 DEF DrawnDown
<1> HIDE DEF d, D, f, L, loads, there, visited
<1>10. \A n \in Nat : (n + 1) * L = n * L + L /\ n * L \in Nat
  BY <1>4
<1>11. kind \in Relieved(d) <=> (visited(f[d]) + 1) * L <= there(f[d])
  BY <1>4, <1>5, <1>6, <1>8, <1>10
<1>12. load'[kind] \in [LocationsOf(kind) -> Nat]
  BY <1>4, <1>5, <1>6, <1>8, <1>9
<1>13. ASSUME NEW k \in LocationsOf(kind)
       PROVE  /\ Located(Visited \cup {d}, f, k) * L <= there(k) =>
                   load'[kind][k] = there(k) - Located(Visited \cup {d}, f, k) * L
              /\ there(k) < Located(Visited \cup {d}, f, k) * L => load'[kind][k] < L
  <2>1. CASE k # f[d]
    <3>1. load'[kind][k] = loads[k] /\ Located(Visited \cup {d}, f, k) = visited(k)
      BY <1>5, <1>7, <1>9, <2>1
    <3> QED
      BY <1>5, <3>1
  <2>2. CASE k = f[d]
    <3>1. Located(Visited \cup {d}, f, k) = visited(k) + 1
      BY <1>7, <2>2
    <3>2. load'[kind][k] = IF kind \in Relieved(d) THEN loads[k] - L ELSE loads[k]
      BY <1>5, <1>6, <1>9, <2>2
    <3>3. loads[k] \in Nat /\ there(k) \in Nat /\ visited(k) \in Nat
      BY <1>4, <1>5
    <3>4. CASE kind \in Relieved(d)
      <4>1. (visited(k) + 1) * L <= there(k) /\ visited(k) * L <= there(k)
        BY <1>4, <1>10, <1>11, <2>2, <3>3, <3>4
      <4> QED
        BY <1>4, <1>5, <1>10, <3>1, <3>2, <3>3, <3>4, <4>1
    <3>5. CASE kind \notin Relieved(d)
      <4>1. ~ ((visited(k) + 1) * L <= there(k)) /\ loads[k] < L
        BY <1>4, <1>8, <1>11, <2>2, <3>3, <3>5
      <4> QED
        BY <1>4, <1>10, <3>1, <3>2, <3>3, <3>5, <4>1
    <3> QED
      BY <3>4, <3>5
  <2> QED
    BY <2>1, <2>2
<1> QED
  BY <1>11, <1>12, <1>13 DEF d, D, f, L, there, visited

LEMMA RelieveStep ==
  ASSUME CountInv, Relieve
  PROVE  CountInv'
<1> DEFINE d == NextVisited
           D == input.daemons
           S == input.candidate
           one(kind) == IF kind \in Relieved(d) THEN 1 ELSE 0
<1>1. /\ input \in Inputs /\ todo \subseteq S /\ pc = "relief" /\ todo # {}
      /\ distance \in Distances
      /\ UNCHANGED <<input, pc>> /\ todo' = todo \ {d} /\ load' = DrawnDown(d)
      /\ distance' = [distance EXCEPT ![2] = @ + one("rack"), ![3] = @ + one("dataCenter"),
                                      ![6] = @ + one("host") + one("store")]
  BY DEF CountInv, Relieve
<1>2. d \in todo /\ d \in S \ Visited /\ Visited \in SUBSET S /\ Visited' = Visited \cup {d}
  BY <1>1, NextVisitedMember DEF Visited
<1>3. Unpaired = {} /\ Unpaired' = {}
  BY <1>1 DEF Unpaired
<1>4. IsFiniteSet(D) /\ IsFiniteSet(S)
  BY <1>1, InputFinite
<1>5. \A kind : Location(kind)' = Location(kind)
  BY <1>1 DEF Location
<1>6. ASSUME NEW kind \in Kinds
      PROVE  ReliefTaken(kind)' = ReliefTaken(kind) + one(kind) /\ ReliefTaken(kind) \in Nat
  <2> DEFINE f == Location(kind)
             more == (Located(Visited, f, f[d]) + 1) * LoadLimit(D) <= Located(D, f, f[d])
  <2>1. Cardinality(Taken(D, S, f, Visited \cup {d})) =
          Cardinality(Taken(D, S, f, Visited)) + (IF more THEN 1 ELSE 0)
    BY <1>2, <1>4, TakenOneMore
  <2>2. kind \in Relieved(d) <=> more
    BY OneRelief
  <2>3. ReliefTaken(kind)' = Cardinality(Taken(D, S, f, Visited \cup {d}))
    BY <1>1, <1>2, <1>5 DEF ReliefTaken
  <2>4. Cardinality(Taken(D, S, f, Visited)) \in Nat
    BY <1>4, TakenFinite
  <2> HIDE DEF more, f
  <2> QED
    BY <2>1, <2>2, <2>3, <2>4 DEF ReliefTaken, f
<1>7. one("rack") \in Nat /\ one("dataCenter") \in Nat /\ one("host") \in Nat /\ one("store") \in Nat
  OBVIOUS
<1> HIDE DEF one, d
<1>8. \A i \in 1..6 : distance[i] \in Nat
  BY <1>1 DEF Distances
<1>9. /\ distance' \in Distances
      /\ distance'[2] = distance[2] + one("rack")
      /\ distance'[3] = distance[3] + one("dataCenter")
      /\ distance'[6] = distance[6] + one("host") + one("store")
      /\ distance'[1] = distance[1] /\ distance'[4] = distance[4] /\ distance'[5] = distance[5]
  BY <1>1, <1>7, <1>8 DEF Distances
<1>10. PairsSoFar'
  BY <1>1, <1>3, <1>9 DEF CountInv, PairsSoFar
<1>11. ReliefSoFar'
  <2>1. /\ ReliefTaken("rack")' = ReliefTaken("rack") + one("rack")
        /\ ReliefTaken("dataCenter")' = ReliefTaken("dataCenter") + one("dataCenter")
        /\ ReliefTaken("host")' = ReliefTaken("host") + one("host")
        /\ ReliefTaken("store")' = ReliefTaken("store") + one("store")
        /\ ReliefTaken("host") \in Nat /\ ReliefTaken("store") \in Nat
    BY <1>6 DEF Kinds
  <2>2. /\ distance[2] = ReliefTaken("rack") /\ distance[3] = ReliefTaken("dataCenter")
        /\ distance[6] = ReliefTaken("host") + ReliefTaken("store")
    BY DEF CountInv, ReliefSoFar
  <2> QED
    BY <1>7, <1>9, <2>1, <2>2 DEF ReliefSoFar
<1>12. LoadsSoFar'
  <2>1. \A kind : LocationsOf(kind)' = LocationsOf(kind)
    BY <1>1, <1>5 DEF LocationsOf
  <2>2. \A kind \in Kinds : load'[kind] \in [LocationsOf(kind) -> Nat]
    BY OneRelief
  <2>3. \A kind \in Kinds : \A k \in LocationsOf(kind) :
          LET taken == Located(Visited \cup {d}, Location(kind), k) * LoadLimit(D)
              there == Located(D, Location(kind), k)
          IN  /\ taken <= there => load'[kind][k] = there - taken
              /\ there < taken  => load'[kind][k] < LoadLimit(D)
    BY OneRelief DEF d
  <2>4. DOMAIN load' = Kinds
    BY <1>1 DEF DrawnDown
  <2> QED
    BY <1>1, <1>2, <1>5, <2>1, <2>2, <2>3, <2>4 DEF LoadsSoFar, LoadLeft
<1> QED
  BY <1>1, <1>9, <1>10, <1>11, <1>12 DEF CountInv

\* Returning, or not moving at all.
LEMMA ReturnStep ==
  ASSUME CountInv, UNCHANGED <<input, todo, load, distance>>,
         pc' = pc \/ (pc = "relief" /\ todo = {} /\ pc' = "done")
  PROVE  CountInv'
<1>1. Unpaired' = Unpaired /\ Visited' = Visited
  BY DEF Unpaired, Visited
<1>2. \A kind : Location(kind)' = Location(kind)
  BY DEF Location
<1>3. \A kind : /\ ReliefTaken(kind)' = ReliefTaken(kind)
                /\ LocationsOf(kind)' = LocationsOf(kind)
  BY <1>1, <1>2 DEF ReliefTaken, LocationsOf
<1>4. PairsSoFar'
  BY <1>1 DEF CountInv, PairsSoFar
<1>5. ReliefSoFar'
  BY <1>3 DEF CountInv, ReliefSoFar, ReliefTaken
<1>6. LoadsSoFar'
  <2>1. pc' = "pairs" <=> pc = "pairs"
    OBVIOUS
  <2>2. CASE pc = "pairs"
    BY <2>1, <2>2 DEF CountInv, LoadsSoFar
  <2>3. CASE pc # "pairs"
    BY <1>1, <1>2, <1>3, <2>1, <2>3 DEF CountInv, LoadsSoFar, LoadLeft
  <2> QED
    BY <2>2, <2>3
<1> QED
  BY <1>4, <1>5, <1>6 DEF CountInv

LEMMA CountSound == Spec => []CountInv
<1>1. ASSUME CountInv, [Next]_vars
      PROVE  CountInv'
  <2>1. CASE UNCHANGED vars
    BY <1>1, <2>1, ReturnStep DEF vars
  <2>2. CASE Return
    BY <1>1, <2>2, ReturnStep DEF Return
  <2> QED
    BY <1>1, <2>1, <2>2, CountPairsStep, CountLoadsStep, RelieveStep DEF Next
<1>2. CountInv /\ [Next]_vars => CountInv'
  BY <1>1
<1> QED
  BY CountInit, <1>2, PTL DEF Spec

\* ComputesDistance: the loops implement the definition by counting, so the
\* distance of a candidate set depends neither on the addresses of its members
\* nor on anything else but where they are.
THEOREM DistanceComputed == Spec => []ComputesDistance
<1>1. ASSUME CountInv, pc = "done"
      PROVE  distance = distanceFunction(input.topology, input.daemons, input.candidate)
  <2> DEFINE t == input.topology
             D == input.daemons
             S == input.candidate
             result == distanceFunction(t, D, S)
  <2>1. distance \in Distances /\ Unpaired = {} /\ Visited = S
    BY <1>1 DEF CountInv, Unpaired, Visited
  <2>2. \A f : Cardinality(Taken(D, S, f, S)) = PressureRelief(D, S, f)
    BY DEF Taken, PressureRelief
  <2>3. /\ ReliefTaken("rack") = PressureRelief(D, S, RackOf(t))
        /\ ReliefTaken("dataCenter") = PressureRelief(D, S, DataCenterOf(t))
        /\ ReliefTaken("host") = PressureRelief(D, S, t.host)
        /\ ReliefTaken("store") = PressureRelief(D, S, t.store)
    <3>1. \A kind : ReliefTaken(kind) = PressureRelief(D, S, Location(kind))
      BY <2>1, <2>2 DEF ReliefTaken
    <3>2. /\ Location("rack") = RackOf(t) /\ Location("dataCenter") = DataCenterOf(t)
          /\ Location("host") = t.host /\ Location("store") = t.store
      BY DEF Location
    <3> QED
      BY <3>1, <3>2
  <2>4. \A i \in 1..6 : distance[i] \in Nat
    BY <2>1 DEF Distances
  <2>5. /\ distance[1] = Cardinality(DifferingHostsStores(t, S))
        /\ distance[4] = Cardinality(DifferingPairs(S, RackOf(t)))
        /\ distance[5] = Cardinality(DifferingPairs(S, DataCenterOf(t)))
    BY <1>1, <2>1, <2>4, NothingCounted DEF CountInv, PairsSoFar
  <2>6. /\ distance[2] = PressureRelief(D, S, RackOf(t))
        /\ distance[3] = PressureRelief(D, S, DataCenterOf(t))
        /\ distance[6] = PressureRelief(D, S, t.host) + PressureRelief(D, S, t.store)
    BY <1>1, <2>3 DEF CountInv, ReliefSoFar
  <2>7. \A i \in 1..6 : distance[i] = result[i]
    BY <2>5, <2>6 DEF distanceFunction
  <2>8. result \in Distances
    BY <1>1, InputFinite, DistanceType DEF CountInv
  <2> HIDE DEF result
  <2>9. distance = result
    BY <2>1, <2>7, <2>8 DEF Distances
  <2> QED
    BY <2>9 DEF result
<1>2. CountInv => ComputesDistance
  BY <1>1 DEF ComputesDistance
<1> QED
  BY CountSound, <1>2, PTL
==============================================================================
