--------------------------- MODULE NebuMongoProofs ---------------------------
(***************************************************************************)
(* Theorems about NebuMongo, for any machines, names, topology, addresses, *)
(* replication factor, policy, number of config servers and faults.        *)
(***************************************************************************)
EXTENDS NebuMongo, PlacementProofs

------------------------------------------------------------------------------
(* Facts about the constants and the helpers.                               *)

LEMMA TypesOfMachines ==
  /\ ConfigServers \subseteq VM /\ QueryRouters \subseteq VM /\ DataServers \subseteq VM
  /\ ConfigServers \cap QueryRouters = {}
  /\ ConfigServers \cap DataServers = {}
  /\ QueryRouters \cap DataServers = {}
BY DEF ConfigServers, QueryRouters, DataServers, OfType

LEMMA AgeCapNat == AgeCap \in Nat
BY PlacementAssumption DEF AgeCap

LEMMA CandidateType ==
  ASSUME NEW D, NEW S \in Candidates(D)
  PROVE  S \subseteq D /\ Cardinality(S) = ReplicationFactor
BY DEF Candidates, kSubset

LEMMA NoReplicaSetType == NoReplicaSet \in ReplicaSetObjects
BY DEF NoReplicaSet, NewReplicaSet, ReplicaSetObjects

\* The configuration string of a router lists config servers.
LEMMA ConfigdbType ==
  ASSUME addr \in AddressOrders, NEW S \in SUBSET ConfigServers
  PROVE  InOrder(addr, S) \in Clusters
<1>1. S \subseteq VM
  BY TypesOfMachines
<1>2. IsFiniteSet(S)
  BY <1>1, VMAssumption, FS_Subset
<1>3. /\ \A d \in S : addr[d] \in Nat
      /\ \A d, e \in S : d # e => addr[d] # addr[e]
  BY <1>1, NebuMongoAssumption
<1>4. InOrder(addr, S) \in Seq(S)
  BY <1>2, <1>3, InOrderSeq
<1>5. \A s \in Seq(S) : s \in Seq(ConfigServers)
  OBVIOUS
<1> QED
  BY <1>4, <1>5 DEF Clusters

------------------------------------------------------------------------------
(* The machines keep their types.                                           *)

LEMMA RunScriptType ==
  ASSUME running \subseteq VM, NEW vm \in VM, NEW success, RunScript(vm, success)
  PROVE  running' \subseteq VM
BY DEF RunScript

LEMMA LaunchConfigsvrType ==
  ASSUME MachinesTypeOK, NEW vm \in VM, NEW success, LaunchConfigsvr(vm, success)
  PROVE  MachinesTypeOK'
BY RunScriptType DEF MachinesTypeOK, LaunchConfigsvr

LEMMA LaunchRouterType ==
  ASSUME MachinesTypeOK, NEW vm \in QueryRouters, NEW configdb \in Clusters, NEW success,
         LaunchRouter(vm, configdb, success)
  PROVE  MachinesTypeOK'
BY RunScriptType, TypesOfMachines DEF MachinesTypeOK, LaunchRouter

LEMMA LaunchDataserverType ==
  ASSUME MachinesTypeOK, NEW vm \in DataServers, NEW no \in Nat, NEW success,
         LaunchDataserver(vm, no, success)
  PROVE  MachinesTypeOK'
BY RunScriptType, TypesOfMachines DEF MachinesTypeOK, LaunchDataserver

LEMMA ReplSetInitiateType ==
  ASSUME MachinesTypeOK, NEW d, NEW name \in Nat, NEW members \in SUBSET DataServers, NEW reply,
         ReplSetInitiate(d, name, members, reply)
  PROVE  MachinesTypeOK'
<1>1. initiated' \subseteq ReplicaSets /\ initiated \subseteq initiated'
  BY DEF MachinesTypeOK, ReplSetInitiate, ReplicaSets
<1>2. shards' \subseteq Clusters \X initiated'
  BY <1>1 DEF MachinesTypeOK, ReplSetInitiate
<1> QED
  BY <1>1, <1>2 DEF MachinesTypeOK, ReplSetInitiate

LEMMA AddShardType ==
  ASSUME MachinesTypeOK, NEW r \in QueryRouters, NEW name, NEW d, NEW reply,
         AddShard(r, name, d, reply)
  PROVE  MachinesTypeOK'
<1>1. runsConfigdb[r] \in Clusters
  BY DEF MachinesTypeOK
<1>2. initiated' = initiated
  BY DEF AddShard
<1>3. shards' = shards \/ \E s \in initiated : shards' = shards \cup {<<runsConfigdb[r], s>>}
  BY Zenon DEF AddShard
<1>4. shards' \subseteq Clusters \X initiated'
  BY <1>1, <1>2, <1>3 DEF MachinesTypeOK
<1> QED
  BY <1>2, <1>4 DEF MachinesTypeOK, AddShard

LEMMA MachineStepType ==
  ASSUME MachinesTypeOK, MachineStep
  PROVE  MachinesTypeOK'
BY DEF MachinesTypeOK, MachineStep, Provision, VMRemoved, DaemonCrash

------------------------------------------------------------------------------
(* Type correctness. It needs MembersDiscovered: a pass over the members of *)
(* a replica set is a pass over daemons.                                    *)

TypeInv == TypeOK /\ MembersDiscovered

LEMMA TypeInit == Init => TypeInv
<1> SUFFICES ASSUME Init PROVE TypeInv
  OBVIOUS
<1>1. MachinesTypeOK
  <2>1. <<>> \in Clusters
    BY DEF Clusters
  <2> QED
    BY <2>1, MachinesAssumption DEF Init, MachinesInit, MachinesTypeOK
<1>2. age \in [DataServers -> 0..AgeCap]
  BY AgeCapNat DEF Init
<1>3. replicaSet \in [SetAddresses -> ReplicaSetObjects] /\ MembersDiscovered
  BY NoReplicaSetType DEF Init, MembersDiscovered, NoReplicaSet, NewReplicaSet
<1>4. cfgList \in [QueryRouters -> Clusters]
  BY DEF Init, Clusters
<1> QED
  BY <1>1, <1>2, <1>3, <1>4 DEF Init, TypeInv, TypeOK, Phases

LEMMA TypeStep == TypeInv /\ [Next]_vars => TypeInv'
<1> SUFFICES ASSUME TypeInv, [Next]_vars PROVE TypeInv'
  OBVIOUS
<1> USE DEF TypeInv, TypeOK, Phases
<1>1. ASSUME NEW vm \in VM, NewVMAdded(vm) PROVE TypeInv'
  BY <1>1 DEF NewVMAdded, MachinesTypeOK, machineVars, passVars, MembersDiscovered, replicaSets
<1>2. CASE Tick
  <2>1. age' \in [DataServers -> 0..AgeCap]
    BY <1>2, AgeCapNat DEF Tick
  <2> QED
    BY <1>2, <2>1 DEF Tick, MachinesTypeOK, machineVars, passVars, MembersDiscovered, replicaSets
<1>3. CASE Restart
  <2>1. MachinesTypeOK'
    BY <1>3 DEF Restart, machineVars, MachinesTypeOK
  <2>2. age' \in [DataServers -> 0..AgeCap]
    BY <1>3, AgeCapNat DEF Restart
  <2>3. replicaSet' \in [SetAddresses -> ReplicaSetObjects] /\ MembersDiscovered'
    BY <1>3, NoReplicaSetType DEF Restart, MembersDiscovered, NoReplicaSet, NewReplicaSet
  <2>4. cfgList' \in [QueryRouters -> Clusters]
    BY <1>3 DEF Restart, Clusters
  <2> QED
    BY <1>3, <2>1, <2>2, <2>3, <2>4 DEF Restart, ForgetDaemons, AbortPass
<1>4. CASE MachineStep
  <2>1. MachinesTypeOK'
    BY <1>4, MachineStepType
  <2> QED
    BY <1>4, <2>1 DEF MachineStep, memoryVars, passVars, MembersDiscovered, replicaSets
<1>5. CASE DeployDaemons
  BY <1>5 DEF DeployDaemons, Unlaunched, MachinesTypeOK, machineVars, memoryVars,
              MembersDiscovered, replicaSets
<1>6. ASSUME NEW d \in ConfigServers, NEW success \in BOOLEAN, LaunchConfigServer(d, success)
      PROVE  TypeInv'
  <2>1. d \in todo /\ d \in VM
    BY <1>6 DEF LaunchConfigServer, IsFirst
  <2>2. MachinesTypeOK'
    BY <1>6, <2>1, LaunchConfigsvrType DEF LaunchConfigServer, MongocfgLaunch
  <2> QED
    BY <1>6, <2>1, <2>2 DEF LaunchConfigServer, MongocfgLaunch, SetLaunched, DoneWith, MembersDiscovered, replicaSets
<1>7. CASE ConfigServersDone
  BY <1>7 DEF ConfigServersDone, Unlaunched, MachinesTypeOK, machineVars, memoryVars,
              MembersDiscovered, replicaSets
<1>8. ASSUME NEW r \in QueryRouters, NEW success \in BOOLEAN, LaunchQueryRouter(r, success)
      PROVE  TypeInv'
  <2>1. r \in todo /\ r \in VM
    BY <1>8 DEF LaunchQueryRouter, IsFirst
  <2>2. InOrder(addr, Launched(ConfigServers)) \in Clusters
    BY ConfigdbType DEF Launched
  <2>3. cfgList' \in [QueryRouters -> Clusters] /\ cfgList'[r] \in Clusters
    BY <1>8, <2>2 DEF LaunchQueryRouter, SetConfigServers
  <2>4. MachinesTypeOK'
    BY <1>8, <2>3, LaunchRouterType DEF LaunchQueryRouter, MongosLaunch
  <2> QED
    BY <1>8, <2>1, <2>3, <2>4 DEF LaunchQueryRouter, MongosLaunch, SetLaunched, DoneWith, MembersDiscovered, replicaSets
<1>9. CASE QueryRoutersDone
  BY <1>9 DEF QueryRoutersDone, MachinesTypeOK, machineVars, memoryVars, MembersDiscovered, replicaSets
<1>10. ASSUME NEW S \in Candidates(rogueDataServers), NEW a \in SetAddresses, FormReplicaSet(S, a)
       PROVE  TypeInv'
  <2> DEFINE object == NewReplicaSet(nextReplicaSetNo, S)
  <2>1. S \subseteq discovered \cap DataServers
    BY CandidateType DEF rogueDataServers
  <2>2. object.name = nextReplicaSetNo /\ object.dataServers = S
    BY DEF NewReplicaSet
  <2>3. object \in ReplicaSetObjects /\ object # NoReplicaSet
    BY <2>1 DEF NewReplicaSet, ReplicaSetObjects, NoReplicaSet
  <2>4. replicaSet' = [replicaSet EXCEPT ![a] = object]
    BY <1>10 DEF FormReplicaSet
  <2>5. object.dataServers \subseteq discovered
    BY <2>1, <2>2
  <2> HIDE DEF object
  <2>6. /\ replicaSet' \in [SetAddresses -> ReplicaSetObjects]
        /\ setTodo \subseteq replicaSets'
        /\ \A b \in SetAddresses : replicaSet'[b].dataServers \subseteq discovered
    BY <2>3, <2>4, <2>5 DEF replicaSets, MembersDiscovered
  <2>7. replSet' \in [DataServers -> Nat] /\ nextReplicaSetNo' \in Nat \ {0}
    BY <1>10 DEF FormReplicaSet, SetReplSet
  <2> QED
    BY <1>10, <2>6, <2>7 DEF FormReplicaSet, MachinesTypeOK, machineVars, passVars, MembersDiscovered
<1>11. CASE DataServersDone
  BY <1>11 DEF DataServersDone, MachinesTypeOK, machineVars, memoryVars, MembersDiscovered, replicaSets
<1>12. ASSUME NEW a \in SetAddresses, SkipReplicaSet(a)
       PROVE  TypeInv'
  BY <1>12 DEF SkipReplicaSet, MachinesTypeOK, machineVars, memoryVars, MembersDiscovered, replicaSets
<1>13. ASSUME NEW a \in SetAddresses, LaunchReplicaSet(a)
       PROVE  TypeInv'
  BY <1>13 DEF LaunchReplicaSet, MembersToLaunch, MachinesTypeOK, machineVars, memoryVars, MembersDiscovered, replicaSets
<1>14. ASSUME NEW d \in DataServers, NEW success \in BOOLEAN, LaunchDataServer(d, success)
       PROVE  TypeInv'
  <2>1. d \in todo
    BY <1>14 DEF LaunchDataServer, IsFirst
  <2>2. MachinesTypeOK'
    BY <1>14, LaunchDataserverType DEF LaunchDataServer, MongodLaunch
  <2>3. todo' \subseteq discovered /\ pc' \in Phases /\ setTodo' \subseteq setTodo
    BY <1>14 DEF LaunchDataServer, NextMember, DoneWith
  <2> QED
    BY <1>14, <2>1, <2>2, <2>3 DEF LaunchDataServer, MongodLaunch, SetLaunched, MembersDiscovered, replicaSets
<1>15. ASSUME NEW a \in SetAddresses, NEW reply \in Replies, InitiateReplicaSet(a, reply)
       PROVE  TypeInv'
  <2>1. replicaSet[a] \in ReplicaSetObjects /\ a \in replicaSets
    BY <1>15 DEF InitiateReplicaSet, IsCurrentSet
  <2>2. MachinesTypeOK'
    <3>1. PICK d \in DataServers :
            ReplSetInitiate(d, replSet[d], replicaSet[a].dataServers, reply)
      BY <1>15, <2>1 DEF InitiateReplicaSet, MemberArray, ReplicaSetObjects
    <3>2. replSet[d] \in Nat /\ replicaSet[a].dataServers \subseteq DataServers
      BY <2>1 DEF ReplicaSetObjects
    <3> QED
      BY <3>1, <3>2, ReplSetInitiateType
  <2> DEFINE object == [replicaSet[a] EXCEPT !.launched = TRUE]
  <2>3. object \in ReplicaSetObjects /\ object # NoReplicaSet /\ object.dataServers = replicaSet[a].dataServers
    BY <2>1 DEF ReplicaSetObjects, NoReplicaSet, NewReplicaSet
  <2>4. replicaSet' = replicaSet \/ replicaSet' = [replicaSet EXCEPT ![a] = object]
    BY <1>15 DEF InitiateReplicaSet
  <2> HIDE DEF object
  <2>5. /\ replicaSet' \in [SetAddresses -> ReplicaSetObjects]
        /\ replicaSets \subseteq replicaSets'
        /\ \A b \in SetAddresses : replicaSet'[b].dataServers \subseteq discovered
    BY <2>3, <2>4 DEF replicaSets, MembersDiscovered
  <2>6. todo' \subseteq discovered /\ pc' \in Phases /\ setTodo' \subseteq setTodo
    BY <1>15 DEF InitiateReplicaSet, AbortPass
  <2> QED
    BY <1>15, <2>2, <2>5, <2>6 DEF InitiateReplicaSet, MembersDiscovered
<1>16. ASSUME NEW a \in SetAddresses, NEW reply \in Replies, RegisterReplicaSet(a, reply)
       PROVE  TypeInv'
  <2>1. replicaSet[a] \in ReplicaSetObjects /\ a \in replicaSets
    BY <1>16 DEF RegisterReplicaSet, IsCurrentSet
  <2>2. MachinesTypeOK'
    BY <1>16, <2>1, AddShardType DEF RegisterReplicaSet, ReplicaSetObjects, Launched
  <2> DEFINE object == [replicaSet[a] EXCEPT !.registered = TRUE]
  <2>3. object \in ReplicaSetObjects /\ object # NoReplicaSet /\ object.dataServers = replicaSet[a].dataServers
    BY <2>1 DEF ReplicaSetObjects, NoReplicaSet, NewReplicaSet
  <2>4. replicaSet' = replicaSet \/ replicaSet' = [replicaSet EXCEPT ![a] = object]
    BY <1>16 DEF RegisterReplicaSet, MarkRegistered
  <2> HIDE DEF object
  <2>5. /\ replicaSet' \in [SetAddresses -> ReplicaSetObjects]
        /\ replicaSets \subseteq replicaSets'
        /\ \A b \in SetAddresses : replicaSet'[b].dataServers \subseteq discovered
    BY <2>3, <2>4 DEF replicaSets, MembersDiscovered
  <2>6. todo' \subseteq discovered /\ pc' \in Phases /\ setTodo' \subseteq setTodo
    BY <1>16 DEF RegisterReplicaSet, AbortPass
  <2> QED
    BY <1>16, <2>2, <2>5, <2>6 DEF RegisterReplicaSet, MembersDiscovered
<1>17. CASE SetsDone
  BY <1>17 DEF SetsDone, MachinesTypeOK, machineVars, memoryVars, MembersDiscovered, replicaSets
<1>18. CASE UNCHANGED vars
  BY <1>18 DEF vars, MachinesTypeOK, machineVars, memoryVars, passVars, MembersDiscovered, replicaSets
<1> HIDE DEF TypeInv, TypeOK, Phases
<1>19. CASE ConfigServersStep
  BY <1>6, <1>7, <1>19 DEF ConfigServersStep
<1>20. CASE QueryRoutersStep
  BY <1>8, <1>9, <1>20 DEF QueryRoutersStep
<1>21. CASE DataServersStep
  BY <1>10, <1>11, <1>21 DEF DataServersStep
<1>22. CASE ReplicaSetsStep
  BY <1>12, <1>13, <1>14, <1>15, <1>16, <1>17, <1>22 DEF ReplicaSetsStep
<1> QED
  BY <1>1, <1>2, <1>3, <1>4, <1>5, <1>18, <1>19, <1>20, <1>21, <1>22 DEF Next, PassStep

\* Every variable keeps its type, and only discovered servers are in replica
\* sets, under any faults and over any number of restarts.
THEOREM TypeCorrect == Spec => [](TypeOK /\ MembersDiscovered)
<1>1. Init => TypeInv
  BY TypeInit
<1>2. TypeInv /\ [Next]_vars => TypeInv'
  BY TypeStep
<1> QED
  BY <1>1, <1>2, PTL DEF Spec, TypeInv
==============================================================================
