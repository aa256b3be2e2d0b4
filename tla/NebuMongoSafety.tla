--------------------------- MODULE NebuMongoSafety ---------------------------
(***************************************************************************)
(* The safety invariants of the nebu-mongo process, for any constants.     *)
(***************************************************************************)
EXTENDS NebuMongoProofs

------------------------------------------------------------------------------
(* How replica sets change.                                                 *)

\* The replica sets keep their names and members, the data servers the names
\* they were given, and nobody gets younger.
SameSets ==
  /\ replicaSets' = replicaSets
  /\ \A a \in SetAddresses : /\ replicaSet'[a].name = replicaSet[a].name
                             /\ replicaSet'[a].dataServers = replicaSet[a].dataServers
  /\ UNCHANGED <<replSet, nextReplicaSetNo>>
  /\ \A d \in DataServers : age[d] <= age'[d]

LEMMA UnchangedSets ==
  ASSUME TypeInv, UNCHANGED <<replicaSet, replSet, nextReplicaSetNo, age>>
  PROVE  SameSets
<1>1. \A d \in DataServers : age[d] \in Int
  BY AgeCapNat DEF TypeInv, TypeOK
<1> QED
  BY <1>1 DEF SameSets, replicaSets

\* Setting a flag of a replica set that exists.
LEMMA FlagSet ==
  ASSUME TypeInv, NEW a \in replicaSets, UNCHANGED <<replSet, nextReplicaSetNo, age>>,
         \/ replicaSet' = replicaSet
         \/ replicaSet' = [replicaSet EXCEPT ![a].launched = TRUE]
         \/ replicaSet' = [replicaSet EXCEPT ![a].registered = TRUE]
  PROVE  SameSets
<1>1. replicaSet \in [SetAddresses -> ReplicaSetObjects] /\ a \in SetAddresses
  BY DEF TypeInv, TypeOK, replicaSets
<1>2. \A d \in DataServers : age[d] \in Int
  BY AgeCapNat DEF TypeInv, TypeOK
<1> DEFINE launched1 == [replicaSet[a] EXCEPT !.launched = TRUE]
           registered1 == [replicaSet[a] EXCEPT !.registered = TRUE]
<1>3. /\ launched1 # NoReplicaSet /\ registered1 # NoReplicaSet
      /\ launched1.name = replicaSet[a].name /\ registered1.name = replicaSet[a].name
      /\ launched1.dataServers = replicaSet[a].dataServers
      /\ registered1.dataServers = replicaSet[a].dataServers
  BY <1>1 DEF ReplicaSetObjects, NoReplicaSet, NewReplicaSet
<1>4. \/ replicaSet' = replicaSet
      \/ replicaSet' = [replicaSet EXCEPT ![a] = launched1]
      \/ replicaSet' = [replicaSet EXCEPT ![a] = registered1]
  OBVIOUS
<1> HIDE DEF launched1, registered1
<1>5. replicaSets' = replicaSets
  BY <1>1, <1>3, <1>4 DEF replicaSets
<1>6. \A b \in SetAddresses : /\ replicaSet'[b].name = replicaSet[b].name
                              /\ replicaSet'[b].dataServers = replicaSet[b].dataServers
  BY <1>1, <1>3, <1>4
<1> QED
  BY <1>2, <1>5, <1>6 DEF SameSets

\* A step restarts the process, forms a replica set or leaves the sets alone.
LEMMA SetSteps ==
  ASSUME TypeInv, [Next]_vars
  PROVE  \/ Restart
         \/ \E S \in Candidates(rogueDataServers), a \in SetAddresses : FormReplicaSet(S, a)
         \/ SameSets
<1> USE UnchangedSets
<1>1. ASSUME NEW vm \in VM, NewVMAdded(vm) PROVE SameSets
  BY <1>1 DEF NewVMAdded
<1>2. CASE Tick
  <2>1. age \in [DataServers -> Nat]
    BY AgeCapNat DEF TypeInv, TypeOK
  <2>2. \A d \in DataServers : age[d] <= age'[d]
    BY <1>2, <2>1 DEF Tick
  <2> QED
    BY <1>2, <2>2 DEF Tick, SameSets, replicaSets
<1>3. CASE MachineStep
  BY <1>3 DEF MachineStep, memoryVars
<1>4. CASE DeployDaemons
  BY <1>4 DEF DeployDaemons, memoryVars
<1>5. CASE ConfigServersStep
  BY <1>5 DEF ConfigServersStep, ConfigServersDone, LaunchConfigServer, memoryVars
<1>6. CASE QueryRoutersStep
  BY <1>6 DEF QueryRoutersStep, QueryRoutersDone, LaunchQueryRouter, memoryVars
<1>7. CASE DataServersDone
  BY <1>7 DEF DataServersDone, memoryVars
<1>8. ASSUME NEW a \in SetAddresses, SkipReplicaSet(a) \/ LaunchReplicaSet(a) PROVE SameSets
  BY <1>8 DEF SkipReplicaSet, LaunchReplicaSet, memoryVars
<1>9. ASSUME NEW a \in SetAddresses, NEW reply, InitiateReplicaSet(a, reply) PROVE SameSets
  <2>1. a \in replicaSets
    BY <1>9 DEF InitiateReplicaSet, IsCurrentSet, TypeInv, TypeOK
  <2> QED
    BY <1>9, <2>1, FlagSet DEF InitiateReplicaSet
<1>10. ASSUME NEW a \in SetAddresses, NEW reply, RegisterReplicaSet(a, reply) PROVE SameSets
  <2>1. a \in replicaSets
    BY <1>10 DEF RegisterReplicaSet, IsCurrentSet, TypeInv, TypeOK
  <2> QED
    BY <1>10, <2>1, FlagSet DEF RegisterReplicaSet, MarkRegistered
<1>11. ASSUME NEW d, NEW success, LaunchDataServer(d, success) PROVE SameSets
  BY <1>11 DEF LaunchDataServer
<1>12. CASE SetsDone
  BY <1>12 DEF SetsDone, memoryVars
<1>13. CASE ReplicaSetsStep
  BY <1>8, <1>9, <1>10, <1>11, <1>12, <1>13 DEF ReplicaSetsStep
<1>14. CASE UNCHANGED vars
  BY <1>14 DEF vars, memoryVars
<1> QED
  BY <1>1, <1>2, <1>3, <1>4, <1>5, <1>6, <1>7, <1>13, <1>14 DEF Next, PassStep, DataServersStep

------------------------------------------------------------------------------
(* Replica sets stay disjoint and distinctly named. Names are distinct     *)
(* because the numbers given out are all below the next one (NamesInUse),  *)
(* members because a server is chosen only if it carries no name, which by *)
(* NamesAgree means that it is in no set.                                   *)

SetInv == NamesInUse /\ OneSetPerServer /\ NamesAgree

LEMMA SetInvInit == Init => SetInv
BY DEF Init, SetInv, NamesInUse, OneSetPerServer, NamesAgree, replicaSets

LEMMA SetInvStep ==
  ASSUME TypeInv, SetInv, [Next]_vars
  PROVE  SetInv'
<1>1. CASE Restart
  BY <1>1 DEF Restart, SetInv, NamesInUse, OneSetPerServer, NamesAgree, replicaSets
<1>2. ASSUME NEW S \in Candidates(rogueDataServers), NEW a \in SetAddresses, FormReplicaSet(S, a)
      PROVE  SetInv'
  <2> DEFINE no == nextReplicaSetNo
  <2>1. /\ no \in Nat \ {0}
        /\ replicaSet \in [SetAddresses -> ReplicaSetObjects]
        /\ replSet \in [DataServers -> Nat]
    BY DEF TypeInv, TypeOK
  <2>2. S \subseteq DataServers /\ \A d \in S : replSet[d] = 0
    BY CandidateType DEF rogueDataServers
  <2>3. /\ a \notin replicaSets
        /\ replicaSet' = [replicaSet EXCEPT ![a] = NewReplicaSet(no, S)]
        /\ replSet' = [d \in DataServers |-> IF d \in S THEN no ELSE replSet[d]]
        /\ nextReplicaSetNo' = no + 1
    BY <1>2 DEF FormReplicaSet, SetReplSet
  <2>4. /\ NewReplicaSet(no, S).name = no
        /\ NewReplicaSet(no, S).dataServers = S
        /\ NewReplicaSet(no, S) # NoReplicaSet
    BY <2>1 DEF NewReplicaSet, NoReplicaSet
  <2>5. /\ replicaSets' = replicaSets \cup {a}
        /\ replicaSet'[a].name = no /\ replicaSet'[a].dataServers = S
        /\ \A b \in replicaSets : replicaSet'[b] = replicaSet[b]
    <3> HIDE DEF no
    <3> QED
      BY <2>1, <2>3, <2>4 DEF replicaSets
  <2>6. \A b \in replicaSets : /\ replicaSet[b].name \in Nat
                               /\ replicaSet[b].name < no
                               /\ replicaSet[b].name # 0
    BY <2>1 DEF SetInv, NamesInUse
  <2>7. \A b \in replicaSets : /\ replicaSet[b].dataServers \subseteq DataServers
                               /\ replicaSet[b].dataServers \cap S = {}
    <3>1. \A b \in replicaSets : replicaSet[b] \in ReplicaSetObjects
      BY <2>1 DEF replicaSets
    <3>2. \A b \in replicaSets : replicaSet[b].dataServers \subseteq DataServers
      BY <3>1 DEF ReplicaSetObjects
    <3>3. \A b \in replicaSets : \A d \in replicaSet[b].dataServers : replSet[d] # 0
      BY <2>6 DEF SetInv, NamesAgree
    <3> QED
      BY <2>2, <3>2, <3>3
  <2>8. NamesInUse'
    BY <2>1, <2>3, <2>5, <2>6 DEF NamesInUse
  <2>9. OneSetPerServer'
    BY <2>5, <2>6, <2>7 DEF SetInv, OneSetPerServer
  <2>10. \A b \in replicaSets' : \A d \in replicaSet'[b].dataServers : replSet'[d] = replicaSet'[b].name
    BY <2>2, <2>3, <2>5, <2>7 DEF SetInv, NamesAgree
  <2>11. \A d \in DataServers :
           replSet'[d] # 0 => \E b \in replicaSets' : d \in replicaSet'[b].dataServers
    BY <2>3, <2>5 DEF SetInv, NamesAgree
  <2> QED
    BY <2>8, <2>9, <2>10, <2>11 DEF SetInv, NamesAgree
<1>3. CASE SameSets
  <2>1. replicaSets \subseteq SetAddresses
    BY DEF replicaSets
  <2> QED
    BY <1>3, <2>1 DEF SameSets, SetInv, NamesInUse, OneSetPerServer, NamesAgree
<1> QED
  BY <1>1, <1>2, <1>3, SetSteps

------------------------------------------------------------------------------
(* Replica sets stay well placed: a set is accepted before it is formed,   *)
(* hosts, stores and racks do not change, and the wait is not undone.      *)

\* What SetsWellPlaced says of one replica set.
WellPlaced(S, ages) ==
  /\ Cardinality(S) = ReplicationFactor
  /\ \A c, d \in S : c # d => /\ Topology.host[c] # Topology.host[d]
                              /\ Topology.store[c] # Topology.store[d]
  /\ \/ MinRacks \in 0..Cardinality({RackOf(Topology)[d] : d \in S})
     \/ RackWaitTimeout >= 0 /\ ~ \E d \in S : ages[d] <= RackWaitTimeout

\* The policy accepts well placed sets only.
LEMMA AcceptedIsWellPlaced ==
  ASSUME NEW ages \in [DataServers -> Nat], NEW S \in SUBSET DataServers,
         Cardinality(S) = ReplicationFactor, isAcceptableReplicaSet(Topology, ages, S)
  PROVE  WellPlaced(S, ages)
<1>1. \A c, d \in S : c # d => /\ Topology.host[c] # Topology.host[d]
                              /\ Topology.store[c] # Topology.store[d]
  BY DEF isAcceptableReplicaSet, isAcceptableHostLocality
<1>2. SpansRacks(Topology, S) \/ WaitedForRacks(ages, S)
  BY DEF isAcceptableReplicaSet, isAcceptableRackLocality
<1> DEFINE Racks == {RackOf(Topology)[d] : d \in S}
<1>3. Cardinality(Racks) \in Nat
  <2> DEFINE rack == [d \in S |-> RackOf(Topology)[d]]
  <2>1. IsFiniteSet(S)
    BY TypesOfMachines, VMAssumption, FS_Subset
  <2>2. rack \in Surjection(S, Racks)
    BY DEF Surjection
  <2> QED
    BY <2>1, <2>2, FS_Surjection, FS_CardinalityType
<1>4. CASE SpansRacks(Topology, S)
  <2>1. MinRacks \in 0..Cardinality(Racks)
    BY <1>3, <1>4, PlacementAssumption DEF SpansRacks
  <2> QED
    BY <1>1, <2>1 DEF WellPlaced
<1>5. CASE WaitedForRacks(ages, S)
  <2>1. RackWaitTimeout >= 0 /\ ~ \E d \in S : ages[d] <= RackWaitTimeout
    BY <1>5, PlacementAssumption DEF WaitedForRacks
  <2> QED
    BY <1>1, <2>1 DEF WellPlaced
<1> QED
  BY <1>2, <1>4, <1>5

LEMMA SetsWellPlacedStep ==
  ASSUME TypeInv, SetsWellPlaced, [Next]_vars
  PROVE  SetsWellPlaced'
<1> DEFINE AllWellPlaced == \A b \in replicaSets : WellPlaced(replicaSet[b].dataServers, age)
<1>0. AllWellPlaced /\ (AllWellPlaced' => SetsWellPlaced')
  BY DEF SetsWellPlaced, WellPlaced
<1> HIDE DEF AllWellPlaced
<1>1. replicaSet \in [SetAddresses -> ReplicaSetObjects] /\ age \in [DataServers -> Nat]
  BY AgeCapNat DEF TypeInv, TypeOK
<1>2. CASE Restart
  BY <1>2 DEF Restart, SetsWellPlaced, replicaSets
<1>3. ASSUME NEW S \in Candidates(rogueDataServers), NEW a \in SetAddresses, FormReplicaSet(S, a)
      PROVE  SetsWellPlaced'
  <2>1. WellPlaced(S, age)
    <3>1. S \in SUBSET DataServers /\ Cardinality(S) = ReplicationFactor
      BY CandidateType DEF rogueDataServers
    <3>2. isAcceptableReplicaSet(Topology, age, S)
      BY <1>3 DEF FormReplicaSet, IsAcceptedSelection
    <3> QED
      BY <1>1, <3>1, <3>2, AcceptedIsWellPlaced
  <2>2. age' = age /\ replicaSet' = [replicaSet EXCEPT ![a] = NewReplicaSet(nextReplicaSetNo, S)]
    BY <1>3 DEF FormReplicaSet
  <2>3. NewReplicaSet(nextReplicaSetNo, S).dataServers = S
    BY DEF NewReplicaSet
  <2>4. \A b \in replicaSets' : \/ b = a /\ replicaSet'[b].dataServers = S
                                \/ b \in replicaSets /\ replicaSet'[b] = replicaSet[b]
    BY <1>1, <2>2, <2>3 DEF replicaSets
  <2> QED
    BY <1>0, <2>1, <2>2, <2>4 DEF AllWellPlaced
<1>4. CASE SameSets
  <2>1. age' \in [DataServers -> Nat]
    BY TypeStep, AgeCapNat DEF TypeInv, TypeOK
  <2>2. ASSUME NEW S \in SUBSET DataServers, WellPlaced(S, age)
        PROVE  WellPlaced(S, age')
    <3>1. \A d \in S : age'[d] <= RackWaitTimeout => age[d] <= RackWaitTimeout
      BY <1>1, <1>4, <2>1, PlacementAssumption DEF SameSets
    <3> QED
      BY <2>2, <3>1 DEF WellPlaced
  <2>3. \A b \in replicaSets : b \in SetAddresses /\ replicaSet[b].dataServers \subseteq DataServers
    BY <1>1 DEF replicaSets, ReplicaSetObjects
  <2> QED
    BY <1>0, <1>4, <2>2, <2>3 DEF SameSets, AllWellPlaced
<1> QED
  BY <1>2, <1>3, <1>4, SetSteps

\* A data server is in one replica set at most, carries that set's name, and
\* every set is as large and as well spread as the policy asks for, in every
\* state of every behaviour.
THEOREM ReplicaSetsSound == Spec => [](OneSetPerServer /\ NamesAgree /\ SetsWellPlaced)
<1> DEFINE Inv == TypeInv /\ SetInv /\ SetsWellPlaced
<1>1. Init => Inv
  <2>1. Init => SetsWellPlaced
    BY DEF Init, SetsWellPlaced, replicaSets
  <2> QED
    BY <2>1, TypeInit, SetInvInit
<1>2. Inv /\ [Next]_vars => Inv'
  BY TypeStep, SetInvStep, SetsWellPlacedStep
<1>3. Inv => OneSetPerServer /\ NamesAgree /\ SetsWellPlaced
  BY DEF SetInv
<1> QED
  BY <1>1, <1>2, <1>3, PTL DEF Spec

\* A data server is never a member of two replica sets, and two sets never
\* have the same name (ReplicaSetManager gives a number out once).
THEOREM ServersInOneSet == Spec => []OneSetPerServer
BY ReplicaSetsSound, PTL

\* The name a data server is launched and initiated under is always that of
\* the set it is in (ReplicaSet::setName reaches every member).
THEOREM ServersNamedAsSet == Spec => []NamesAgree
BY ReplicaSetsSound, PTL

\* Every replica set keeps to the locality policy for as long as it exists.
THEOREM PlacementKept == Spec => []SetsWellPlaced
BY ReplicaSetsSound, PTL

------------------------------------------------------------------------------
(* The order of deployment. What a pass has established is in PhaseInv; it *)
(* is not undone because daemons are only ever added to the launched ones, *)
(* and a config server is launched only while too few of them are.         *)

DeployInv == ConfigServerQuota /\ PhaseInv /\ DeploymentOrder

LEMMA LaunchedFinite ==
  ASSUME TypeInv
  PROVE  IsFiniteSet(Launched(ConfigServers)) /\ Cardinality(Launched(ConfigServers)) \in Nat
<1>1. Launched(ConfigServers) \subseteq VM
  BY TypesOfMachines DEF Launched
<1> QED
  BY <1>1, VMAssumption, FS_Subset, FS_CardinalityType

LEMMA DeployInvInit == Init => DeployInv
<1> SUFFICES ASSUME Init PROVE DeployInv
  OBVIOUS
<1>1. Launched(ConfigServers) = {} /\ Launched(QueryRouters) = {} /\ Launched(DataServers) = {}
  BY DEF Init, Launched
<1>2. Cardinality(Launched(ConfigServers)) = 0
  BY <1>1, FS_EmptySet
<1>3. replicaSets = {}
  BY DEF Init, replicaSets
<1> QED
  BY <1>1, <1>2, <1>3, NebuMongoAssumption
     DEF Init, DeployInv, ConfigServerQuota, PhaseInv, DeploymentOrder, queryRouterActive

\* A step that leaves the launched daemons and the flags alone has only to
\* establish PhaseInv.
LEMMA SameLaunched ==
  ASSUME DeployInv, UNCHANGED <<launched, replicaSet>>
  PROVE  /\ ConfigServerQuota' /\ DeploymentOrder'
         /\ configServersActive' = configServersActive
         /\ queryRouterActive' = queryRouterActive
BY DEF DeployInv, ConfigServerQuota, DeploymentOrder, configServersActive, queryRouterActive,
       Launched, replicaSets

LEMMA DeployInvStep ==
  ASSUME TypeInv, DeployInv, [Next]_vars
  PROVE  DeployInv'
<1> USE DEF DeployInv
<1>1. ASSUME NEW vm \in VM, NewVMAdded(vm) PROVE DeployInv'
  BY <1>1, SameLaunched DEF NewVMAdded, passVars, PhaseInv
<1>2. CASE Tick
  BY <1>2, SameLaunched DEF Tick, passVars, PhaseInv, Unlaunched, IsCurrentSet
<1>3. CASE Restart
  <2>1. launched' = {} /\ replicaSets' = {} /\ pc' = "idle" /\ todo' = {} /\ setTodo' = {}
    BY <1>3 DEF Restart, ForgetDaemons, AbortPass, replicaSets
  <2>2. /\ Launched(ConfigServers)' = {}
        /\ Launched(QueryRouters)' = {}
        /\ Launched(DataServers)' = {}
    BY <2>1 DEF Launched
  <2>3. Cardinality(Launched(ConfigServers)') = 0
    BY <2>2, FS_EmptySet
  <2> QED
    BY <2>1, <2>2, <2>3, NebuMongoAssumption
       DEF ConfigServerQuota, PhaseInv, DeploymentOrder, queryRouterActive
<1>4. CASE MachineStep
  BY <1>4, SameLaunched DEF MachineStep, memoryVars, passVars, PhaseInv, Unlaunched, IsCurrentSet
<1>5. CASE DeployDaemons
  BY <1>5, SameLaunched DEF DeployDaemons, memoryVars, PhaseInv, Unlaunched
<1>6. ASSUME NEW d \in ConfigServers, NEW success \in BOOLEAN, LaunchConfigServer(d, success)
      PROVE  DeployInv'
  <2>1. /\ pc = "config" /\ pc' = "config" /\ ~ configServersActive
        /\ launched' = launched \/ launched' = launched \cup {d}
        /\ todo' = todo \ {d}
        /\ discovered' = discovered /\ replicaSet' = replicaSet /\ setTodo' = setTodo
    BY <1>6 DEF LaunchConfigServer, MongocfgLaunch, SetLaunched, DoneWith
  <2>2. d \in todo /\ todo \subseteq Unlaunched(ConfigServers)
    BY <1>6, <2>1 DEF LaunchConfigServer, IsFirst, PhaseInv
  <2>3. ~ queryRouterActive
    BY <2>1 DEF DeploymentOrder
  <2>4. /\ Launched(QueryRouters)' = Launched(QueryRouters)
        /\ Launched(DataServers)' = Launched(DataServers)
    <3>1. launched' \cap QueryRouters = launched \cap QueryRouters
      BY <2>1, TypesOfMachines
    <3>2. launched' \cap DataServers = launched \cap DataServers
      BY <2>1, TypesOfMachines
    <3> QED
      BY <3>1, <3>2 DEF Launched
  <2>5. ConfigServerQuota'
    <3>1. \/ Launched(ConfigServers)' = Launched(ConfigServers)
          \/ Launched(ConfigServers)' = Launched(ConfigServers) \cup {d}
      BY <2>1 DEF Launched
    <3>2. d \notin Launched(ConfigServers)
      BY <2>2 DEF Launched, Unlaunched
    <3>3. Cardinality(Launched(ConfigServers) \cup {d}) = Cardinality(Launched(ConfigServers)) + 1
      BY <3>2, LaunchedFinite, FS_AddElement
    <3>4. Cardinality(Launched(ConfigServers)) \in Nat /\ RequiredConfigServers \in Nat
      BY LaunchedFinite, NebuMongoAssumption
    <3>5. Cardinality(Launched(ConfigServers)) < RequiredConfigServers
      BY <2>1, <3>4 DEF configServersActive
    <3>6. CASE Launched(ConfigServers)' = Launched(ConfigServers)
      BY <3>4, <3>5, <3>6 DEF ConfigServerQuota
    <3>7. CASE Launched(ConfigServers)' = Launched(ConfigServers) \cup {d}
      BY <3>3, <3>4, <3>5, <3>7 DEF ConfigServerQuota
    <3> QED
      BY <3>1, <3>6, <3>7
  <2>6. todo' \subseteq Unlaunched(ConfigServers)'
    BY <2>1, <2>2 DEF Unlaunched
  <2>7. PhaseInv'
    BY <2>1, <2>6 DEF PhaseInv
  <2>8. DeploymentOrder'
    BY <2>1, <2>3, <2>4 DEF DeploymentOrder, queryRouterActive, replicaSets
  <2> QED
    BY <2>5, <2>7, <2>8
<1>7. CASE ConfigServersDone
  BY <1>7, SameLaunched DEF ConfigServersDone, memoryVars, PhaseInv, Unlaunched
<1>8. ASSUME NEW r \in QueryRouters, NEW success \in BOOLEAN, LaunchQueryRouter(r, success)
      PROVE  DeployInv'
  <2>1. /\ pc = "routers" /\ pc' = "routers"
        /\ launched' = launched \/ launched' = launched \cup {r}
        /\ todo' = todo \ {r}
        /\ discovered' = discovered /\ replicaSet' = replicaSet /\ setTodo' = setTodo
    BY <1>8 DEF LaunchQueryRouter, MongosLaunch, SetLaunched, DoneWith
  <2>2. todo \subseteq Unlaunched(QueryRouters) /\ configServersActive
    BY <2>1 DEF PhaseInv
  <2>3. /\ Launched(ConfigServers)' = Launched(ConfigServers)
        /\ Launched(DataServers)' = Launched(DataServers)
        /\ Launched(QueryRouters) \subseteq Launched(QueryRouters)'
    <3>1. launched' \cap ConfigServers = launched \cap ConfigServers
      BY <2>1, TypesOfMachines
    <3>2. launched' \cap DataServers = launched \cap DataServers
      BY <2>1, TypesOfMachines
    <3> QED
      BY <2>1, <3>1, <3>2 DEF Launched
  <2>4. ConfigServerQuota' /\ configServersActive'
    BY <2>2, <2>3 DEF ConfigServerQuota, configServersActive
  <2>5. todo' \subseteq Unlaunched(QueryRouters)'
    BY <2>1, <2>2 DEF Unlaunched
  <2>6. PhaseInv'
    BY <2>1, <2>4, <2>5 DEF PhaseInv
  <2>7. DeploymentOrder'
    BY <2>1, <2>3, <2>4 DEF DeploymentOrder, queryRouterActive, replicaSets
  <2> QED
    BY <2>4, <2>6, <2>7
<1>9. CASE QueryRoutersDone
  BY <1>9, SameLaunched DEF QueryRoutersDone, memoryVars, PhaseInv
<1>10. ASSUME NEW S \in Candidates(rogueDataServers), NEW a \in SetAddresses, FormReplicaSet(S, a)
       PROVE  DeployInv'
  <2>1. /\ pc = "data" /\ UNCHANGED <<discovered, launched, pc, todo, setTodo>>
        /\ replicaSet' = [replicaSet EXCEPT ![a] = NewReplicaSet(nextReplicaSetNo, S)]
    BY <1>10 DEF FormReplicaSet, passVars
  <2>2. ~ NewReplicaSet(nextReplicaSetNo, S).launched /\ ~ NewReplicaSet(nextReplicaSetNo, S).registered
    BY DEF NewReplicaSet
  <2>3. replicaSet \in [SetAddresses -> ReplicaSetObjects]
    BY DEF TypeInv, TypeOK
  <2>4. \A b \in replicaSets' : \/ ~ replicaSet'[b].launched /\ ~ replicaSet'[b].registered
                                \/ b \in replicaSets /\ replicaSet'[b] = replicaSet[b]
    BY <2>1, <2>2, <2>3 DEF replicaSets
  <2>5. DeploymentOrder'
    BY <2>1, <2>4 DEF DeploymentOrder, queryRouterActive, configServersActive, Launched
  <2>6. ConfigServerQuota' /\ PhaseInv'
    BY <2>1 DEF ConfigServerQuota, PhaseInv, queryRouterActive, configServersActive, Launched
  <2> QED
    BY <2>5, <2>6
<1>11. CASE DataServersDone
  BY <1>11, SameLaunched DEF DataServersDone, memoryVars, PhaseInv
<1>12. ASSUME NEW a \in SetAddresses, SkipReplicaSet(a) PROVE DeployInv'
  BY <1>12, SameLaunched DEF SkipReplicaSet, memoryVars, PhaseInv
<1>13. ASSUME NEW a \in SetAddresses, LaunchReplicaSet(a) PROVE DeployInv'
  <2>1. /\ pc = "sets" /\ pc' = "members" /\ ~ replicaSet[a].launched
        /\ a \in setTodo /\ IsCurrentSet(a) /\ todo' = replicaSet[a].dataServers \ launched
        /\ UNCHANGED <<launched, replicaSet, setTodo>>
    BY <1>13 DEF LaunchReplicaSet, MembersToLaunch, memoryVars, IsCurrentSet
  <2>2. IsCurrentSet(a)'
    BY <2>1 DEF IsCurrentSet
  <2>3. PhaseInv'
    BY <2>1, <2>2, SameLaunched DEF PhaseInv
  <2> QED
    BY <2>1, <2>3, SameLaunched
<1>14. ASSUME NEW d \in DataServers, NEW success \in BOOLEAN, LaunchDataServer(d, success)
       PROVE  DeployInv'
  <2>1. /\ pc = "members" /\ replicaSet' = replicaSet /\ d \in todo
        /\ launched' = IF success THEN launched \cup {d} ELSE launched
    BY <1>14 DEF LaunchDataServer, MongodLaunch, SetLaunched, IsFirst
  <2>2. configServersActive /\ queryRouterActive
    BY <2>1 DEF PhaseInv
  <2>3. /\ Launched(ConfigServers)' = Launched(ConfigServers)
        /\ Launched(QueryRouters)' = Launched(QueryRouters)
    <3>1. launched' \cap ConfigServers = launched \cap ConfigServers
      BY <2>1, TypesOfMachines
    <3>2. launched' \cap QueryRouters = launched \cap QueryRouters
      BY <2>1, TypesOfMachines
    <3> QED
      BY <3>1, <3>2 DEF Launched
  <2>4. ConfigServerQuota' /\ configServersActive' /\ queryRouterActive'
    BY <2>2, <2>3 DEF ConfigServerQuota, configServersActive, queryRouterActive, DeployInv
  <2>5. DeploymentOrder'
    <3>1. launched \subseteq launched'
      BY <2>1
    <3> QED
      BY <2>1, <2>4, <3>1 DEF DeploymentOrder, replicaSets
  <2>6. PhaseInv'
    <3>1. CASE success
      <4>1. pc' = pc /\ setTodo' = setTodo /\ todo' = todo \ {d}
        BY <1>14, <3>1 DEF LaunchDataServer, NextMember, DoneWith
      <4>2. PICK a \in setTodo : IsCurrentSet(a) /\ ~ replicaSet[a].launched
                                 /\ todo = replicaSet[a].dataServers \ launched
        BY <2>1 DEF PhaseInv
      <4>3. IsCurrentSet(a)' /\ todo' = replicaSet[a].dataServers \ launched'
        BY <2>1, <3>1, <4>1, <4>2 DEF IsCurrentSet
      <4> QED
        BY <2>1, <2>4, <4>1, <4>2, <4>3 DEF PhaseInv
    <3>2. CASE ~ success
      <4>1. pc' = "sets" /\ todo' = {}
        BY <1>14, <3>2 DEF LaunchDataServer, NextMember
      <4> QED
        BY <2>4, <4>1 DEF PhaseInv
    <3> QED
      BY <3>1, <3>2
  <2> QED
    BY <2>4, <2>5, <2>6
<1>15. ASSUME NEW a \in SetAddresses, NEW reply \in Replies, InitiateReplicaSet(a, reply)
       PROVE  DeployInv'
  <2>1. /\ pc = "members" /\ todo = {} /\ IsCurrentSet(a) /\ launched' = launched
        /\ \/ pc' = "idle" /\ todo' = {} /\ setTodo' = {} /\ replicaSet' = replicaSet
           \/ /\ pc' = "sets" /\ todo' = {} /\ setTodo' = setTodo
              /\ replicaSet' = [replicaSet EXCEPT ![a].launched = TRUE]
    BY <1>15 DEF InitiateReplicaSet, AbortPass
  <2>2. configServersActive /\ queryRouterActive
    BY <2>1 DEF PhaseInv
  <2>3. /\ Launched(ConfigServers)' = Launched(ConfigServers)
        /\ Launched(QueryRouters)' = Launched(QueryRouters)
        /\ Launched(DataServers)' = Launched(DataServers)
    BY <2>1 DEF Launched
  <2>4. ConfigServerQuota' /\ configServersActive' /\ queryRouterActive'
    BY <2>2, <2>3 DEF ConfigServerQuota, configServersActive, queryRouterActive
  <2>5. PhaseInv'
    BY <2>1, <2>4 DEF PhaseInv
  <2>6. replicaSet[a].dataServers \subseteq launched
    <3>1. setTodo \subseteq Nat
      BY NebuMongoAssumption DEF TypeInv, TypeOK, replicaSets
    <3>2. PICK b \in setTodo : IsCurrentSet(b) /\ todo = replicaSet[b].dataServers \ launched
      BY <2>1 DEF PhaseInv
    <3>3. a = b
      BY <2>1, <3>1, <3>2 DEF IsCurrentSet
    <3> QED
      BY <2>1, <3>2, <3>3
  <2>7. \A b \in replicaSets' :
          \/ b = a /\ replicaSet'[b].dataServers \subseteq launched'
             /\ (replicaSet'[b].registered => replicaSet'[b].launched)
          \/ b \in replicaSets /\ replicaSet'[b] = replicaSet[b]
    <3> DEFINE object == [replicaSet[a] EXCEPT !.launched = TRUE]
    <3>1. replicaSet \in [SetAddresses -> ReplicaSetObjects] /\ a \in replicaSets
      BY <2>1 DEF TypeInv, TypeOK, IsCurrentSet
    <3>2. object.launched /\ object.dataServers = replicaSet[a].dataServers
      BY <3>1 DEF ReplicaSetObjects
    <3>3. replicaSet' = replicaSet \/ replicaSet' = [replicaSet EXCEPT ![a] = object]
      BY <2>1
    <3> HIDE DEF object
    <3> QED
      BY <2>1, <2>6, <3>1, <3>2, <3>3 DEF replicaSets
  <2>8. DeploymentOrder'
    BY <2>1, <2>4, <2>7 DEF DeploymentOrder
  <2> QED
    BY <2>4, <2>5, <2>8
<1>16. ASSUME NEW a \in SetAddresses, NEW reply \in Replies, RegisterReplicaSet(a, reply)
       PROVE  DeployInv'
  <2>1. /\ pc = "sets" /\ IsCurrentSet(a) /\ replicaSet[a].launched /\ launched' = launched
        /\ \/ pc' = "idle" /\ todo' = {} /\ setTodo' = {}
           \/ pc' = pc /\ todo' = todo
        /\ \/ replicaSet' = replicaSet
           \/ replicaSet' = [replicaSet EXCEPT ![a].registered = TRUE]
    BY <1>16 DEF RegisterReplicaSet, AbortPass, MarkRegistered
  <2>2. configServersActive /\ queryRouterActive
    BY <2>1 DEF PhaseInv
  <2>3. /\ Launched(ConfigServers)' = Launched(ConfigServers)
        /\ Launched(QueryRouters)' = Launched(QueryRouters)
        /\ Launched(DataServers)' = Launched(DataServers)
    BY <2>1 DEF Launched
  <2>4. ConfigServerQuota' /\ configServersActive' /\ queryRouterActive'
    BY <2>2, <2>3 DEF ConfigServerQuota, configServersActive, queryRouterActive
  <2>5. PhaseInv'
    BY <2>1, <2>4 DEF PhaseInv
  <2>6. \A b \in replicaSets' : /\ b \in replicaSets
                                /\ replicaSet'[b].launched = replicaSet[b].launched
                                /\ replicaSet'[b].dataServers = replicaSet[b].dataServers
                                /\ replicaSet'[b].registered =>
                                     replicaSet[b].registered \/ replicaSet[b].launched
    <3> DEFINE object == [replicaSet[a] EXCEPT !.registered = TRUE]
    <3>1. replicaSet \in [SetAddresses -> ReplicaSetObjects] /\ a \in replicaSets
      BY <2>1 DEF TypeInv, TypeOK, IsCurrentSet
    <3>2. object.launched = replicaSet[a].launched /\ object.dataServers = replicaSet[a].dataServers
      BY <3>1 DEF ReplicaSetObjects
    <3>3. replicaSet' = replicaSet \/ replicaSet' = [replicaSet EXCEPT ![a] = object]
      BY <2>1
    <3> HIDE DEF object
    <3> QED
      BY <2>1, <3>1, <3>2, <3>3 DEF replicaSets
  <2>7. DeploymentOrder'
    BY <2>1, <2>4, <2>6 DEF DeploymentOrder
  <2> QED
    BY <2>4, <2>5, <2>7
<1>17. CASE SetsDone
  BY <1>17, SameLaunched DEF SetsDone, memoryVars, PhaseInv
<1>18. CASE UNCHANGED vars
  BY <1>18, SameLaunched DEF vars, memoryVars, passVars, PhaseInv, Unlaunched, IsCurrentSet
<1> HIDE DEF DeployInv
<1>19. CASE ConfigServersStep
  BY <1>6, <1>7, <1>19 DEF ConfigServersStep
<1>20. CASE QueryRoutersStep
  BY <1>8, <1>9, <1>20 DEF QueryRoutersStep
<1>21. CASE DataServersStep
  BY <1>10, <1>11, <1>21 DEF DataServersStep
<1>22. CASE ReplicaSetsStep
  BY <1>12, <1>13, <1>14, <1>15, <1>16, <1>17, <1>22 DEF ReplicaSetsStep
<1> QED
  BY <1>1, <1>2, <1>3, <1>4, <1>5, <1>18, <1>19, <1>20, <1>21, <1>22 DEF Next, PassStep

\* No more config servers are launched than required, and deployment goes by
\* stages (config servers, routers, all members of a set, the set itself), in
\* every state of every behaviour, whatever fails.
THEOREM DeploymentStaged == Spec => [](ConfigServerQuota /\ DeploymentOrder)
<1> DEFINE Inv == TypeInv /\ DeployInv
<1>1. Init => Inv
  BY TypeInit, DeployInvInit
<1>2. Inv /\ [Next]_vars => Inv'
  BY TypeStep, DeployInvStep
<1>3. Inv => ConfigServerQuota /\ DeploymentOrder
  BY DEF DeployInv
<1> QED
  BY <1>1, <1>2, <1>3, PTL DEF Spec

\* deployConfigServers stops at the required number, whatever fails before.
THEOREM QuotaKept == Spec => []ConfigServerQuota
BY DeploymentStaged, PTL

\* Config servers come before routers, routers before data servers, the
\* members of a set before the set, its launch before its registration.
THEOREM OrderKept == Spec => []DeploymentOrder
BY DeploymentStaged, PTL
==============================================================================
