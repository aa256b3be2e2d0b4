------------------------------ MODULE Placement ------------------------------
(***************************************************************************)
(* Which data servers make a good replica set: the distance function of    *)
(* DaemonDeployer, its ordering, the locality policy, and what             *)
(* selectReplicaSet is to return.                                          *)
(*                                                                         *)
(* A topology t is a record: t.host and t.store give the physical host and *)
(* the physical store of a data server's VM, t.rack and t.dataCenter the   *)
(* rack and the data center of a host, as the TopologyManager knows them.  *)
(***************************************************************************)
EXTENDS Integers, FiniteSets, FiniteSetsExt

CONSTANTS
  ReplicationFactor,  \* mongo.replication.factor
  MinRacks,           \* app.policy.replicated.minracks
  RackWaitTimeout     \* app.policy.replicated.timeoutracks

\* The code divides by the replication factor and indexes vectors of that
\* length, so zero is excluded; a negative timeout means "wait forever".
ASSUME PlacementAssumption ==
  /\ ReplicationFactor \in Nat \ {0}
  /\ MinRacks \in Int
  /\ RackWaitTimeout \in Int

RackOf(t)       == [d \in DOMAIN t.host |-> t.rack[t.host[d]]]
DataCenterOf(t) == [d \in DOMAIN t.host |-> t.dataCenter[t.host[d]]]

------------------------------------------------------------------------------
(* The distance of a candidate set S among the unplaced servers `daemons`. *)

\* The pairs of S whose members differ in f.
DifferingPairs(S, f) == {p \in kSubset(2, S) : \E a, b \in p : f[a] # f[b]}

LoadLimit(daemons) ==
  (Cardinality(daemons) + ReplicationFactor - 1) \div ReplicationFactor

Located(S, f, l) == Cardinality({d \in S : f[d] = l})

\* Choosing the k-th server of S at a location l takes LoadLimit off the
\* load of l, provided k * LoadLimit servers were there to begin with.
PressureRelief(daemons, S, f) ==
  Cardinality({lk \in {f[d] : d \in S} \X (1..Cardinality(S)) :
                 /\ lk[2] <= Located(S, f, lk[1])
                 /\ lk[2] * LoadLimit(daemons) <= Located(daemons, f, lk[1])})

\* Mutant of DifferingHostsStores: a shared store does not count.
DifferingHosts(t, S) == DifferingPairs(S, t.host)

DifferingHostsStores(t, S) == DifferingPairs(S, t.host) \cap DifferingPairs(S, t.store)

\* The fields of struct Distance, most significant first.
distanceFunction(t, daemons, S) ==
  << Cardinality(DifferingHostsStores(t, S)),
     PressureRelief(daemons, S, RackOf(t)),
     PressureRelief(daemons, S, DataCenterOf(t)),
     Cardinality(DifferingPairs(S, RackOf(t))),
     Cardinality(DifferingPairs(S, DataCenterOf(t))),
     PressureRelief(daemons, S, t.host) + PressureRelief(daemons, S, t.store) >>

\* Distance::compare: the first field that differs decides.
DistanceLess(a, b) ==
  \E i \in 1..6 : a[i] < b[i] /\ \A j \in 1..(i - 1) : a[j] = b[j]

DistanceAtLeast(a, b) == ~ DistanceLess(a, b)

------------------------------------------------------------------------------
(* The policy a replica set must satisfy before it is created.             *)

\* Mutant of isAcceptableHostLocality: members may share a store.
isAcceptableOnAnyStore(t, S) == \A a, b \in S : a # b => t.host[a] # t.host[b]

isAcceptableHostLocality(t, S) ==
  \A a, b \in S : a # b => t.host[a] # t.host[b] /\ t.store[a] # t.store[b]

\* A negative minimum is read into an unsigned integer: no set has that many.
SpansRacks(t, S) == MinRacks >= 0 /\ MinRacks <= Cardinality({RackOf(t)[d] : d \in S})

\* Mutants of WaitedForRacks: there is no timeout; the oldest member's age counts.
NeverWaitedForRacks(age, S) == FALSE
OldestWaitedForRacks(age, S) ==
  RackWaitTimeout >= 0 /\ \E d \in S : age[d] > RackWaitTimeout

\* Every member has been known for longer than the timeout.
WaitedForRacks(age, S) ==
  RackWaitTimeout >= 0 /\ \A d \in S : age[d] > RackWaitTimeout

isAcceptableRackLocality(t, age, S) == SpansRacks(t, S) \/ WaitedForRacks(age, S)

isAcceptableDataCenterLocality(S) == TRUE

isAcceptableReplicaSet(t, age, S) ==
  /\ isAcceptableHostLocality(t, S)
  /\ isAcceptableRackLocality(t, age, S)
  /\ isAcceptableDataCenterLocality(S)

------------------------------------------------------------------------------
(* What selectReplicaSet considers and what it must choose.                *)

Candidates(daemons) == kSubset(ReplicationFactor, daemons)

\* Candidates are enumerated lexicographically by the addresses of their
\* members: T comes before S when the lowest address that only one of the
\* two has belongs to T.
EnumeratedBefore(addr, T, S) ==
  \E d \in T \ S : \A e \in S \ T : addr[d] < addr[e]

\* S is the candidate with the greatest distance, the last one enumerated
\* when several have it.
IsSelected(t, addr, daemons, S) ==
  /\ S \in Candidates(daemons)
  /\ \A T \in Candidates(daemons) :
       LET dS == distanceFunction(t, daemons, S)
           dT == distanceFunction(t, daemons, T)
       IN  \/ DistanceLess(dT, dS)
           \/ dT = dS /\ (T = S \/ EnumeratedBefore(addr, T, S))
==============================================================================
