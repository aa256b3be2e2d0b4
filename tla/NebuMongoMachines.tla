-------------------------- MODULE NebuMongoMachines --------------------------
(***************************************************************************)
(* What holds between the nebu-mongo process and the machines: the daemons *)
(* that run were started with the arguments the process would give them    *)
(* now, although it never asks them.                                       *)
(***************************************************************************)
EXTENDS NebuMongoSafety

------------------------------------------------------------------------------
(* The invariants of the process, and the steps that touch the machines.    *)

ProcessInv == TypeInv /\ SetInv /\ SetsWellPlaced /\ DeployInv

LEMMA ProcessInvInit == Init => ProcessInv
<1>1. Init => SetsWellPlaced
  BY DEF Init, SetsWellPlaced, replicaSets
<1> QED
  BY <1>1, TypeInit, SetInvInit, DeployInvInit DEF ProcessInv

LEMMA ProcessInvStep == ProcessInv /\ [Next]_vars => ProcessInv'
BY TypeStep, SetInvStep, SetsWellPlacedStep, DeployInvStep DEF ProcessInv

\* A step in which the process only thinks: no daemon is launched, no command
\* sent, no set formed.
InnerStep ==
  UNCHANGED <<machineVars, addr, launched, replSet, cfgList, replicaSet, nextReplicaSetNo>>

\* What any step is, as far as machines and replica sets are concerned.
LEMMA Steps ==
  ASSUME [Next]_vars
  PROVE  \/ Restart
         \/ MachineStep
         \/ \E d \in ConfigServers, success \in BOOLEAN : LaunchConfigServer(d, success)
         \/ \E r \in QueryRouters, success \in BOOLEAN : LaunchQueryRouter(r, success)
         \/ \E S \in Candidates(rogueDataServers), a \in SetAddresses : FormReplicaSet(S, a)
         \/ \E d \in DataServers, success \in BOOLEAN : LaunchDataServer(d, success)
         \/ \E a \in SetAddresses, reply \in Replies : InitiateReplicaSet(a, reply)
         \/ \E a \in SetAddresses, reply \in Replies : RegisterReplicaSet(a, reply)
         \/ InnerStep
<1>1. ASSUME NEW vm \in VM, NewVMAdded(vm) PROVE InnerStep
  BY <1>1 DEF NewVMAdded, InnerStep
<1>2. Tick => InnerStep
  BY DEF Tick, InnerStep
<1>3. DeployDaemons \/ ConfigServersDone \/ QueryRoutersDone \/ DataServersDone \/ SetsDone => InnerStep
  BY DEF DeployDaemons, ConfigServersDone, QueryRoutersDone, DataServersDone, SetsDone,
         memoryVars, InnerStep
<1>4. ASSUME NEW a \in SetAddresses, SkipReplicaSet(a) \/ LaunchReplicaSet(a) PROVE InnerStep
  BY <1>4 DEF SkipReplicaSet, LaunchReplicaSet, memoryVars, InnerStep
<1>5. UNCHANGED vars => InnerStep
  BY DEF vars, memoryVars, InnerStep
<1> QED
  BY <1>1, <1>2, <1>3, <1>4, <1>5
     DEF Next, PassStep, ConfigServersStep, QueryRoutersStep, DataServersStep, ReplicaSetsStep

\* A member of the set that is being launched is a data server that belongs to
\* this set, and knows its name.
LEMMA LaunchedMember ==
  ASSUME ProcessInv, pc = "members", NEW d \in todo
  PROVE  d \in DataServers /\ replSet[d] # 0
<1>1. PICK a \in setTodo : todo = replicaSet[a].dataServers \ launched
  BY DEF ProcessInv, DeployInv, PhaseInv
<1>2. a \in replicaSets /\ replicaSet[a] \in ReplicaSetObjects
  BY DEF ProcessInv, TypeInv, TypeOK, replicaSets
<1>3. d \in replicaSet[a].dataServers /\ replicaSet[a].dataServers \subseteq DataServers
  BY <1>1, <1>2 DEF ReplicaSetObjects
<1>4. replSet[d] = replicaSet[a].name /\ replicaSet[a].name \in 1..(nextReplicaSetNo - 1)
  BY <1>2, <1>3 DEF ProcessInv, SetInv, NamesAgree, NamesInUse
<1> QED
  BY <1>3, <1>4

\* A replica set is fit to be one.
LEMMA SetFit ==
  ASSUME ProcessInv, NEW a \in replicaSets
  PROVE  /\ replicaSet[a] \in ReplicaSetObjects
         /\ replicaSet[a].dataServers \in FitGroups
         /\ replicaSet[a].dataServers # {}
<1>1. replicaSet[a] \in ReplicaSetObjects
  BY DEF ProcessInv, TypeInv, TypeOK, replicaSets
<1>2. /\ Cardinality(replicaSet[a].dataServers) = ReplicationFactor
      /\ isAcceptableHostLocality(Topology, replicaSet[a].dataServers)
  BY DEF ProcessInv, SetsWellPlaced, isAcceptableHostLocality
<1>3. replicaSet[a].dataServers # {}
  BY <1>2, PlacementAssumption, FS_EmptySet
<1>4. replicaSet[a].dataServers \in FitGroups
  BY <1>1, <1>2 DEF ReplicaSetObjects, FitGroups, Candidates, kSubset
<1> QED
  BY <1>1, <1>3, <1>4

\* A new set has its object for itself; it is neither launched nor registered.
LEMMA FormedSet ==
  ASSUME ProcessInv, NEW S, NEW a \in SetAddresses, FormReplicaSet(S, a)
  PROVE  /\ a \notin replicaSets
         /\ replicaSets' = replicaSets \cup {a}
         /\ \A b \in replicaSets : replicaSet'[b] = replicaSet[b]
         /\ replicaSet'[a].dataServers = S
         /\ ~ replicaSet'[a].launched /\ ~ replicaSet'[a].registered
<1> DEFINE object == NewReplicaSet(nextReplicaSetNo, S)
<1>1. replicaSet \in [SetAddresses -> ReplicaSetObjects] /\ nextReplicaSetNo # 0
  BY DEF ProcessInv, TypeInv, TypeOK
<1>2. object # NoReplicaSet /\ object.dataServers = S /\ ~ object.launched /\ ~ object.registered
  BY <1>1 DEF NewReplicaSet, NoReplicaSet
<1>3. a \notin replicaSets /\ replicaSet' = [replicaSet EXCEPT ![a] = object]
  BY DEF FormReplicaSet
<1> HIDE DEF object
<1> QED
  BY <1>1, <1>2, <1>3 DEF replicaSets

------------------------------------------------------------------------------
(* Data servers run under the name of their set.                            *)

LEMMA RunningUnderSetNameStep ==
  ASSUME ProcessInv, RunningUnderSetName, [Next]_vars
  PROVE  RunningUnderSetName'
<1> SUFFICES ASSUME NoRestart, NEW d \in DataServers, d \in running'
             PROVE  runsReplSet'[d] = replSet'[d] /\ replSet'[d] # 0
  BY DEF RunningUnderSetName
<1>1. d \in running => runsReplSet[d] = replSet[d] /\ replSet[d] # 0
  BY DEF RunningUnderSetName
<1>2. CASE MachineStep
  BY <1>1, <1>2 DEF MachineStep, Provision, VMRemoved, DaemonCrash, memoryVars
<1>3. ASSUME NEW c \in ConfigServers, NEW success \in BOOLEAN, LaunchConfigServer(c, success)
      PROVE  runsReplSet'[d] = replSet'[d] /\ replSet'[d] # 0
  <2>1. d \in running
    BY <1>3, TypesOfMachines DEF LaunchConfigServer, MongocfgLaunch, LaunchConfigsvr, RunScript
  <2> QED
    BY <1>1, <1>3, <2>1 DEF LaunchConfigServer, MongocfgLaunch, LaunchConfigsvr
<1>4. ASSUME NEW r \in QueryRouters, NEW success \in BOOLEAN, LaunchQueryRouter(r, success)
      PROVE  runsReplSet'[d] = replSet'[d] /\ replSet'[d] # 0
  <2>1. d \in running
    BY <1>4, TypesOfMachines DEF LaunchQueryRouter, MongosLaunch, LaunchRouter, RunScript
  <2> QED
    BY <1>1, <1>4, <2>1 DEF LaunchQueryRouter, MongosLaunch, LaunchRouter
<1>5. ASSUME NEW S \in Candidates(rogueDataServers), NEW a \in SetAddresses, FormReplicaSet(S, a)
      PROVE  runsReplSet'[d] = replSet'[d] /\ replSet'[d] # 0
  <2>1. \A e \in S : replSet[e] = 0
    BY CandidateType DEF rogueDataServers
  <2>2. d \in running /\ runsReplSet' = runsReplSet
    BY <1>5 DEF FormReplicaSet, machineVars
  <2>3. replSet'[d] = replSet[d]
    BY <1>1, <1>5, <2>1, <2>2 DEF FormReplicaSet, SetReplSet
  <2> QED
    BY <1>1, <2>2, <2>3
<1>6. ASSUME NEW e \in DataServers, NEW success \in BOOLEAN, LaunchDataServer(e, success)
      PROVE  runsReplSet'[d] = replSet'[d] /\ replSet'[d] # 0
  <2>1. replSet' = replSet /\ LaunchDataserver(e, replSet[e], success)
    BY <1>6 DEF LaunchDataServer, MongodLaunch
  <2>2. replSet[e] # 0
    BY <1>6, LaunchedMember DEF LaunchDataServer, IsFirst
  <2>3. runsReplSet \in [DataServers -> Nat]
    BY DEF ProcessInv, TypeInv, TypeOK, MachinesTypeOK
  <2> QED
    BY <1>1, <2>1, <2>2, <2>3 DEF LaunchDataserver, RunScript
<1>7. ASSUME NEW a \in SetAddresses, NEW reply \in Replies,
             InitiateReplicaSet(a, reply) \/ RegisterReplicaSet(a, reply)
      PROVE  runsReplSet'[d] = replSet'[d] /\ replSet'[d] # 0
  BY <1>1, <1>7 DEF InitiateReplicaSet, ReplSetInitiate, RegisterReplicaSet, AddShard
<1>8. CASE InnerStep
  BY <1>1, <1>8 DEF InnerStep, machineVars
<1>9. ~ Restart
  BY DEF Restart, NoRestart
<1> QED
  BY <1>2, <1>3, <1>4, <1>5, <1>6, <1>7, <1>8, <1>9, Steps

\* A data server that runs was started under the name of the replica set it is
\* in, although the flag `launched` may say that it does not run (lostExit).
THEOREM NamesRun == Spec => []RunningUnderSetName
<1> DEFINE Inv == ProcessInv /\ RunningUnderSetName
<1>1. Init => Inv
  <2>1. Init => RunningUnderSetName
    BY DEF Init, MachinesInit, RunningUnderSetName
  <2> QED
    BY <2>1, ProcessInvInit
<1>2. Inv /\ [Next]_vars => Inv'
  BY ProcessInvStep, RunningUnderSetNameStep
<1> QED
  BY <1>1, <1>2, PTL DEF Spec

------------------------------------------------------------------------------
(* All routers have the list of the config servers in service. A router is *)
(* started only when enough config servers are launched, and from then on  *)
(* no other is.                                                            *)

RoutersListServers ==
  NoRestart => \A r \in running \cap QueryRouters :
    configServersActive /\ runsConfigdb[r] = InOrder(addr, Launched(ConfigServers))

\* A step that starts no router and launches no config server.
LEMMA SameRouters ==
  ASSUME RoutersListServers, UNCHANGED <<addr, runsConfigdb>>,
         Launched(ConfigServers)' = Launched(ConfigServers),
         running' \cap QueryRouters \subseteq running
  PROVE  RoutersListServers'
BY DEF RoutersListServers, configServersActive

LEMMA RoutersListServersStep ==
  ASSUME ProcessInv, RoutersListServers, [Next]_vars
  PROVE  RoutersListServers'
<1> SUFFICES ASSUME NoRestart PROVE RoutersListServers'
  BY DEF RoutersListServers
<1>1. CASE MachineStep
  BY <1>1, SameRouters DEF MachineStep, Provision, VMRemoved, DaemonCrash, memoryVars, Launched
<1>2. ASSUME NEW d \in ConfigServers, NEW success \in BOOLEAN, LaunchConfigServer(d, success)
      PROVE  RoutersListServers'
  <2>1. ~ configServersActive
    BY <1>2 DEF LaunchConfigServer
  <2>2. running \cap QueryRouters = {}
    BY <2>1 DEF RoutersListServers
  <2>3. running' \cap QueryRouters = {}
    BY <1>2, <2>2, TypesOfMachines DEF LaunchConfigServer, MongocfgLaunch, LaunchConfigsvr, RunScript
  <2> QED
    BY <2>3 DEF RoutersListServers
<1>3. ASSUME NEW r \in QueryRouters, NEW success \in BOOLEAN, LaunchQueryRouter(r, success)
      PROVE  RoutersListServers'
  <2> DEFINE list == InOrder(addr, Launched(ConfigServers))
  <2>1. /\ addr' = addr /\ cfgList'[r] = list
        /\ LaunchRouter(r, cfgList'[r], success)
        /\ launched' = launched \/ launched' = launched \cup {r}
    BY <1>3 DEF LaunchQueryRouter, SetConfigServers, MongosLaunch, SetLaunched, ProcessInv, TypeInv, TypeOK
  <2>2. Launched(ConfigServers)' = Launched(ConfigServers)
    BY <2>1, TypesOfMachines DEF Launched
  <2>3. configServersActive
    BY <1>3 DEF LaunchQueryRouter, ProcessInv, DeployInv, PhaseInv
  <2>4. runsConfigdb \in [QueryRouters -> Clusters]
    BY DEF ProcessInv, TypeInv, TypeOK, MachinesTypeOK
  <2>5. ASSUME NEW q \in QueryRouters, q \in running'
        PROVE  runsConfigdb'[q] = list
    <3>1. q \in running => runsConfigdb[q] = list
      BY DEF RoutersListServers
    <3> HIDE DEF list
    <3> QED
      BY <2>1, <2>4, <2>5, <3>1 DEF LaunchRouter, RunScript
  <2> QED
    BY <2>1, <2>2, <2>3, <2>5 DEF RoutersListServers, configServersActive
<1>4. ASSUME NEW S \in Candidates(rogueDataServers), NEW a \in SetAddresses, FormReplicaSet(S, a)
      PROVE  RoutersListServers'
  BY <1>4, SameRouters DEF FormReplicaSet, machineVars, Launched
<1>5. ASSUME NEW d \in DataServers, NEW success \in BOOLEAN, LaunchDataServer(d, success)
      PROVE  RoutersListServers'
  <2>1. Launched(ConfigServers)' = Launched(ConfigServers)
    BY <1>5, TypesOfMachines DEF LaunchDataServer, MongodLaunch, SetLaunched, Launched
  <2>2. running' \cap QueryRouters \subseteq running
    BY <1>5, TypesOfMachines DEF LaunchDataServer, MongodLaunch, LaunchDataserver, RunScript
  <2> QED
    BY <1>5, <2>1, <2>2, SameRouters DEF LaunchDataServer, MongodLaunch, LaunchDataserver
<1>6. ASSUME NEW a \in SetAddresses, NEW reply \in Replies,
             InitiateReplicaSet(a, reply) \/ RegisterReplicaSet(a, reply)
      PROVE  RoutersListServers'
  BY <1>6, SameRouters DEF InitiateReplicaSet, ReplSetInitiate, RegisterReplicaSet, AddShard, Launched
<1>7. CASE InnerStep
  BY <1>7, SameRouters DEF InnerStep, machineVars, Launched
<1>8. ~ Restart
  BY DEF Restart, NoRestart
<1> QED
  BY <1>1, <1>2, <1>3, <1>4, <1>5, <1>6, <1>7, <1>8, Steps

\* InOrder lists a set of config servers.
LEMMA InOrderLists ==
  ASSUME addr \in AddressOrders, NEW S \in SUBSET ConfigServers
  PROVE  Lists(InOrder(addr, S), S)
<1>1. S \subseteq VM
  BY TypesOfMachines
<1>2. IsFiniteSet(S)
  BY <1>1, VMAssumption, FS_Subset
<1>3. /\ \A d \in S : addr[d] \in Nat
      /\ \A d, e \in S : d # e => addr[d] # addr[e]
  BY <1>1, NebuMongoAssumption
<1>4. InOrder(addr, S) \in Bijection(1..Cardinality(S), S)
  BY <1>2, <1>3, InOrderBijection
<1>5. Len(InOrder(addr, S)) = Cardinality(S)
  BY <1>2, <1>3, InOrderSeq
<1> QED
  BY <1>4, <1>5 DEF Lists, Bijection, Surjection

\* All query routers that run were given the same list, in the same order, of
\* exactly the config servers in service, whenever they were launched and
\* whatever failed, as long as nebu-mongo is not restarted.
THEOREM RoutersInOneCluster == Spec => []RoutersAgree
<1> DEFINE Inv == ProcessInv /\ RoutersListServers
<1>1. Init => Inv
  <2>1. Init => RoutersListServers
    BY DEF Init, MachinesInit, RoutersListServers
  <2> QED
    BY <2>1, ProcessInvInit
<1>2. Inv /\ [Next]_vars => Inv'
  BY ProcessInvStep, RoutersListServersStep
<1>3. Inv => RoutersAgree
  <2> SUFFICES ASSUME Inv, NoRestart, NEW r \in running \cap QueryRouters
               PROVE  /\ runsConfigdb[r] = InOrder(addr, Launched(ConfigServers))
                      /\ Lists(runsConfigdb[r], Launched(ConfigServers))
                      /\ Len(runsConfigdb[r]) = RequiredConfigServers
    BY DEF RoutersAgree
  <2>1. configServersActive /\ runsConfigdb[r] = InOrder(addr, Launched(ConfigServers))
    BY DEF RoutersListServers
  <2>2. Lists(runsConfigdb[r], Launched(ConfigServers))
    BY <2>1, InOrderLists DEF Launched, ProcessInv, TypeInv, TypeOK
  <2>3. Cardinality(Launched(ConfigServers)) = RequiredConfigServers
    BY <2>1, LaunchedFinite, NebuMongoAssumption
       DEF configServersActive, ProcessInv, DeployInv, ConfigServerQuota
  <2> QED
    BY <2>1, <2>2, <2>3 DEF Lists
<1> QED
  BY <1>1, <1>2, <1>3, PTL DEF Spec
==============================================================================
