--------------------------- MODULE NebuMongoCluster ---------------------------
(***************************************************************************)
(* NebuMongo implements ShardedCluster, and what it has marked as          *)
(* registered is a shard. This needs that crashes of daemons and restarts  *)
(* of nebu-mongo do not both occur: a daemon of an old process that keeps  *)
(* running keeps its server from being launched by a new one, and a        *)
(* process that is not restarted never gives out a name twice.             *)
(***************************************************************************)
EXTENDS NebuMongoMachines

NotBothCrashAndRestart == "crash" \notin Faults \/ NoRestart

------------------------------------------------------------------------------
(* The invariants.                                                          *)

\* A daemon runs on a machine that is ready, and a machine that is gone stays
\* gone.
MachinesAlive == running \subseteq ready /\ ready \cap removed = {}

\* Without crashes, the members of a replica set run until they are removed,
\* so that no process can start them again.
MembersStay ==
  "crash" \notin Faults => \A s \in initiated : s[2] \subseteq running \cup removed

\* The replica sets of this process as MongoDB would see them.
OwnSets == {<<replicaSet[a].name, replicaSet[a].dataServers>> : a \in replicaSets}

\* The servers this process launched are in no other replica set than the one
\* it put them in, and without restarts there are no other replica sets.
OwnSetsOnly ==
  /\ NoRestart => initiated \subseteq OwnSets
  /\ \A s \in initiated : s[2] \cap launched # {} => s \in OwnSets

\* What is marked as registered was added through a router that was launched.
RegisteredThroughRouter ==
  \A a \in replicaSets : replicaSet[a].registered =>
    \E r \in Launched(QueryRouters) :
      <<runsConfigdb[r], <<replicaSet[a].name, replicaSet[a].dataServers>>>> \in shards

\* As many numbers were given out as there are sets.
SetsNumbered == nextReplicaSetNo = Cardinality(replicaSets) + 1

ConfigServerLists == {InOrder(order, S) : order \in AddressOrders, S \in SUBSET ConfigServers}

\* Routers have the lists this program makes.
ConfigdbListed == \A r \in QueryRouters : runsConfigdb[r] \in ConfigServerLists

ClusterInv ==
  /\ MachinesAlive
  /\ MembersStay
  /\ OwnSetsOnly
  /\ RegisteredThroughRouter
  /\ SetsNumbered
  /\ ConfigdbListed

------------------------------------------------------------------------------
(* What the steps do that concern replica sets and shards.                  *)

LEMMA OwnSet ==
  ASSUME NEW a \in replicaSets
  PROVE  <<replicaSet[a].name, replicaSet[a].dataServers>> \in OwnSets
BY DEF OwnSets

\* A server of one of the process's own sets tells which one.
LEMMA OwnSetUnique ==
  ASSUME ProcessInv, NEW a \in replicaSets, NEW s \in OwnSets,
         \/ s[1] = replicaSet[a].name
         \/ s[2] \cap replicaSet[a].dataServers # {}
  PROVE  s = <<replicaSet[a].name, replicaSet[a].dataServers>>
<1>1. PICK b \in replicaSets : s = <<replicaSet[b].name, replicaSet[b].dataServers>>
  BY DEF OwnSets
<1>2. a = b
  BY <1>1 DEF ProcessInv, SetInv, OneSetPerServer
<1> QED
  BY <1>1, <1>2

\* replSetInitiate is sent for a set of which every member was launched, under
\* the name of the set.
LEMMA InitiateEffect ==
  ASSUME ProcessInv, NEW a \in SetAddresses, NEW reply \in Replies, InitiateReplicaSet(a, reply)
  PROVE  /\ a \in replicaSets
         /\ replicaSet[a].dataServers \subseteq launched
         /\ \/ initiated' = initiated
            \/ /\ initiated' = initiated \cup {<<replicaSet[a].name, replicaSet[a].dataServers>>}
               /\ CanInitiate(replicaSet[a].name, replicaSet[a].dataServers)
<1>1. a \in replicaSets /\ a \in setTodo
  BY DEF InitiateReplicaSet, IsCurrentSet, ProcessInv, TypeInv, TypeOK
<1>2. replicaSet[a].dataServers \subseteq launched
  <2>1. pc = "members" /\ todo = {} /\ IsCurrentSet(a)
    BY DEF InitiateReplicaSet
  <2>2. PICK b \in setTodo : IsCurrentSet(b) /\ todo = replicaSet[b].dataServers \ launched
    BY <2>1 DEF ProcessInv, DeployInv, PhaseInv
  <2>3. setTodo \subseteq Nat
    BY NebuMongoAssumption DEF ProcessInv, TypeInv, TypeOK, replicaSets
  <2>4. a = b
    BY <2>1, <2>2, <2>3 DEF IsCurrentSet
  <2> QED
    BY <2>1, <2>2, <2>4
<1>3. PICK d \in replicaSet[a].dataServers :
        ReplSetInitiate(d, replSet[d], replicaSet[a].dataServers, reply)
  BY DEF InitiateReplicaSet, MemberArray
<1>4. replSet[d] = replicaSet[a].name
  BY <1>1 DEF ProcessInv, SetInv, NamesAgree
<1> QED
  BY <1>1, <1>2, <1>3, <1>4 DEF ReplSetInitiate, MaySucceed

\* addShard adds a replica set of the name to the cluster of a launched router,
\* or it is not answered with ok.
LEMMA RegisterEffect ==
  ASSUME ProcessInv, NEW a \in SetAddresses, NEW reply \in Replies, RegisterReplicaSet(a, reply)
  PROVE  /\ a \in replicaSets
         /\ \/ reply # "ok" /\ shards' = shards
            \/ \E r \in Launched(QueryRouters), s \in initiated, d \in replicaSet[a].dataServers :
                 /\ s[1] = replicaSet[a].name
                 /\ d \in s[2] /\ d \in launched
                 /\ CanAddShard(runsConfigdb[r], d, s)
                 /\ shards' = shards \cup {<<runsConfigdb[r], s>>}
<1>1. a \in replicaSets /\ replicaSet[a].launched
  BY DEF RegisterReplicaSet, IsCurrentSet, ProcessInv, TypeInv, TypeOK
<1>2. replicaSet[a].dataServers \subseteq launched
  BY <1>1 DEF ProcessInv, DeployInv, DeploymentOrder
<1>3. PICK r \in Launched(QueryRouters), d \in replicaSet[a].dataServers :
        AddShard(r, replicaSet[a].name, d, reply)
  BY DEF RegisterReplicaSet
<1> DEFINE addable ==
      {s \in initiated : s[1] = replicaSet[a].name /\ CanAddShard(runsConfigdb[r], d, s)}
<1>4. \/ \E s \in addable : shards' = shards \cup {<<runsConfigdb[r], s>>}
      \/ /\ MayFail(r, \E s \in addable : <<runsConfigdb[r], s>> \notin shards, reply)
         /\ shards' = shards
  BY <1>3 DEF AddShard
<1>5. MayFail(r, \E s \in addable : <<runsConfigdb[r], s>> \notin shards, reply) => reply # "ok"
  BY DEF MayFail
<1>6. \A s \in addable : d \in s[2]
  BY DEF CanAddShard
<1> QED
  BY <1>1, <1>2, <1>4, <1>5, <1>6

------------------------------------------------------------------------------
(* The machines.                                                            *)

LEMMA MachinesAliveStep ==
  ASSUME ProcessInv, MachinesAlive, [Next]_vars
  PROVE  MachinesAlive'
<1> USE DEF MachinesAlive
<1>1. CASE Restart
  BY <1>1 DEF Restart, machineVars
<1>2. CASE MachineStep
  BY <1>2 DEF MachineStep, Provision, VMRemoved, DaemonCrash
<1>3. ASSUME NEW vm, NEW success, RunScript(vm, success), UNCHANGED <<ready, removed>>
      PROVE  MachinesAlive'
  BY <1>3 DEF RunScript, CanStart
<1>4. ASSUME NEW d \in ConfigServers, NEW success \in BOOLEAN, LaunchConfigServer(d, success)
      PROVE  MachinesAlive'
  BY <1>3, <1>4 DEF LaunchConfigServer, MongocfgLaunch, LaunchConfigsvr
<1>5. ASSUME NEW r \in QueryRouters, NEW success \in BOOLEAN, LaunchQueryRouter(r, success)
      PROVE  MachinesAlive'
  BY <1>3, <1>5 DEF LaunchQueryRouter, MongosLaunch, LaunchRouter
<1>6. ASSUME NEW S \in Candidates(rogueDataServers), NEW a \in SetAddresses, FormReplicaSet(S, a)
      PROVE  MachinesAlive'
  BY <1>6 DEF FormReplicaSet, machineVars
<1>7. ASSUME NEW d \in DataServers, NEW success \in BOOLEAN, LaunchDataServer(d, success)
      PROVE  MachinesAlive'
  BY <1>3, <1>7 DEF LaunchDataServer, MongodLaunch, LaunchDataserver
<1>8. ASSUME NEW a \in SetAddresses, NEW reply \in Replies,
             InitiateReplicaSet(a, reply) \/ RegisterReplicaSet(a, reply)
      PROVE  MachinesAlive'
  BY <1>8 DEF InitiateReplicaSet, ReplSetInitiate, RegisterReplicaSet, AddShard
<1>9. CASE InnerStep
  BY <1>9 DEF InnerStep, machineVars
<1> QED
  BY <1>1, <1>2, <1>4, <1>5, <1>6, <1>7, <1>8, <1>9, Steps

\* A step that leaves the replica sets alone and stops no daemon but on a
\* machine that is removed.
LEMMA SameInitiated ==
  ASSUME MembersStay, initiated' = initiated,
         "crash" \notin Faults => running \cup removed \subseteq running' \cup removed'
  PROVE  MembersStay'
BY DEF MembersStay

LEMMA MembersStayStep ==
  ASSUME ProcessInv, MembersStay, [Next]_vars
  PROVE  MembersStay'
<1>1. CASE Restart
  BY <1>1, SameInitiated DEF Restart, machineVars
<1>2. CASE MachineStep
  BY <1>2, SameInitiated DEF MachineStep, Provision, VMRemoved, DaemonCrash
<1>3. ASSUME NEW vm, NEW success, RunScript(vm, success), UNCHANGED <<removed, initiated>>
      PROVE  MembersStay'
  BY <1>3, SameInitiated DEF RunScript
<1>4. ASSUME NEW d \in ConfigServers, NEW success \in BOOLEAN, LaunchConfigServer(d, success)
      PROVE  MembersStay'
  BY <1>3, <1>4 DEF LaunchConfigServer, MongocfgLaunch, LaunchConfigsvr
<1>5. ASSUME NEW r \in QueryRouters, NEW success \in BOOLEAN, LaunchQueryRouter(r, success)
      PROVE  MembersStay'
  BY <1>3, <1>5 DEF LaunchQueryRouter, MongosLaunch, LaunchRouter
<1>6. ASSUME NEW S \in Candidates(rogueDataServers), NEW a \in SetAddresses, FormReplicaSet(S, a)
      PROVE  MembersStay'
  BY <1>6, SameInitiated DEF FormReplicaSet, machineVars
<1>7. ASSUME NEW d \in DataServers, NEW success \in BOOLEAN, LaunchDataServer(d, success)
      PROVE  MembersStay'
  BY <1>3, <1>7 DEF LaunchDataServer, MongodLaunch, LaunchDataserver
<1>8. ASSUME NEW a \in SetAddresses, NEW reply \in Replies, InitiateReplicaSet(a, reply)
      PROVE  MembersStay'
  <2>1. running' = running /\ removed' = removed
    BY <1>8 DEF InitiateReplicaSet, ReplSetInitiate
  <2>2. CanInitiate(replicaSet[a].name, replicaSet[a].dataServers)
          => replicaSet[a].dataServers \subseteq running
    BY DEF CanInitiate, RunsUnder
  <2> QED
    BY <1>8, <2>1, <2>2, InitiateEffect DEF MembersStay
<1>9. ASSUME NEW a \in SetAddresses, NEW reply \in Replies, RegisterReplicaSet(a, reply)
      PROVE  MembersStay'
  BY <1>9, SameInitiated DEF RegisterReplicaSet, AddShard
<1>10. CASE InnerStep
  BY <1>10, SameInitiated DEF InnerStep, machineVars
<1> QED
  BY <1>1, <1>2, <1>4, <1>5, <1>6, <1>7, <1>8, <1>9, <1>10, Steps

------------------------------------------------------------------------------
(* The replica sets.                                                        *)

LEMMA SameOwnSets ==
  ASSUME SameSets
  PROVE  OwnSets' = OwnSets
BY DEF SameSets, OwnSets, replicaSets

LEMMA OwnSetsOnlyStep ==
  ASSUME NotBothCrashAndRestart, ProcessInv, MachinesAlive, MembersStay, OwnSetsOnly, [Next]_vars
  PROVE  OwnSetsOnly'
<1>1. CASE Restart
  BY <1>1 DEF Restart, ForgetDaemons, OwnSetsOnly, NoRestart
<1>2. ASSUME NEW S \in Candidates(rogueDataServers), NEW a \in SetAddresses, FormReplicaSet(S, a)
      PROVE  OwnSetsOnly'
  <2>1. OwnSets \subseteq OwnSets'
    BY <1>2, FormedSet DEF OwnSets
  <2> QED
    BY <1>2, <2>1 DEF FormReplicaSet, machineVars, OwnSetsOnly
<1>3. CASE SameSets
  <2>1. OwnSets' = OwnSets
    BY <1>3, SameOwnSets
  <2>2. \A s \in initiated : s[2] \subseteq DataServers
    BY DEF ProcessInv, TypeInv, TypeOK, MachinesTypeOK, ReplicaSets
  <2>3. ASSUME initiated' = initiated,
               NEW type \in {ConfigServers, QueryRouters}, NEW vm \in type,
               launched' \subseteq launched \cup {vm}
        PROVE  OwnSetsOnly'
    <3>1. vm \notin DataServers
      BY <2>3, TypesOfMachines
    <3> QED
      BY <2>1, <2>2, <2>3, <3>1 DEF OwnSetsOnly
  <2>4. CASE MachineStep
    BY <2>1, <2>4 DEF MachineStep, Provision, VMRemoved, DaemonCrash, memoryVars, OwnSetsOnly
  <2>5. ASSUME NEW d \in ConfigServers, NEW success \in BOOLEAN, LaunchConfigServer(d, success)
        PROVE  OwnSetsOnly'
    BY <2>3, <2>5 DEF LaunchConfigServer, MongocfgLaunch, LaunchConfigsvr, SetLaunched
  <2>6. ASSUME NEW r \in QueryRouters, NEW success \in BOOLEAN, LaunchQueryRouter(r, success)
        PROVE  OwnSetsOnly'
    BY <2>3, <2>6 DEF LaunchQueryRouter, MongosLaunch, LaunchRouter, SetLaunched
  <2>7. ASSUME NEW d \in DataServers, NEW success \in BOOLEAN, LaunchDataServer(d, success)
        PROVE  OwnSetsOnly'
    <3>1. initiated' = initiated /\ launched' = IF success THEN launched \cup {d} ELSE launched
      BY <2>7 DEF LaunchDataServer, MongodLaunch, LaunchDataserver, SetLaunched
    <3>2. success => d \in ready \ running
      BY <2>7 DEF LaunchDataServer, MongodLaunch, LaunchDataserver, RunScript, CanStart
    <3>3. ASSUME "crash" \notin Faults, success
          PROVE  \A s \in initiated : d \notin s[2]
      BY <3>2, <3>3 DEF MachinesAlive, MembersStay
    <3> QED
      BY <2>1, <3>1, <3>3 DEF OwnSetsOnly, NotBothCrashAndRestart
  <2>8. ASSUME NEW a \in SetAddresses, NEW reply \in Replies, InitiateReplicaSet(a, reply)
        PROVE  OwnSetsOnly'
    <3>1. launched' = launched
      BY <2>8 DEF InitiateReplicaSet
    <3>2. \A s \in initiated' : s \in initiated \/ s \in OwnSets
      BY <2>8, InitiateEffect, OwnSet
    <3> QED
      BY <2>1, <3>1, <3>2 DEF OwnSetsOnly
  <2>9. ASSUME NEW a \in SetAddresses, NEW reply \in Replies, RegisterReplicaSet(a, reply)
        PROVE  OwnSetsOnly'
    BY <2>1, <2>9 DEF RegisterReplicaSet, AddShard, OwnSetsOnly
  <2>10. CASE InnerStep
    BY <2>1, <2>10 DEF InnerStep, machineVars, OwnSetsOnly
  <2> QED
    BY <1>1, <1>2, <2>4, <2>5, <2>6, <2>7, <2>8, <2>9, <2>10, Steps
<1> QED
  BY <1>1, <1>2, <1>3, SetSteps DEF ProcessInv

LEMMA SetsNumberedStep ==
  ASSUME ProcessInv, SetsNumbered, [Next]_vars
  PROVE  SetsNumbered'
<1>1. replicaSets \in SUBSET SetAddresses
  BY DEF replicaSets
<1>2. IsFiniteSet(replicaSets) /\ Cardinality(replicaSets) \in Nat
  BY <1>1, NebuMongoAssumption, FS_Subset, FS_CardinalityType
<1>3. CASE Restart
  <2>1. replicaSets' = {}
    BY <1>3 DEF Restart, replicaSets
  <2> QED
    BY <1>3, <2>1, FS_EmptySet DEF Restart, SetsNumbered
<1>4. ASSUME NEW S \in Candidates(rogueDataServers), NEW a \in SetAddresses, FormReplicaSet(S, a)
      PROVE  SetsNumbered'
  <2>1. a \notin replicaSets /\ replicaSets' = replicaSets \cup {a}
    BY <1>4, FormedSet
  <2>2. Cardinality(replicaSets') = Cardinality(replicaSets) + 1
    BY <1>2, <2>1, FS_AddElement
  <2>3. nextReplicaSetNo' = nextReplicaSetNo + 1
    BY <1>4 DEF FormReplicaSet
  <2> QED
    BY <1>2, <2>2, <2>3 DEF SetsNumbered
<1>5. CASE SameSets
  BY <1>5 DEF SameSets, SetsNumbered
<1> QED
  BY <1>3, <1>4, <1>5, SetSteps DEF ProcessInv

------------------------------------------------------------------------------
(* The shards.                                                              *)

LEMMA ConfigdbListedStep ==
  ASSUME ProcessInv, ConfigdbListed, [Next]_vars
  PROVE  ConfigdbListed'
<1> USE DEF ConfigdbListed
<1>1. CASE Restart
  BY <1>1 DEF Restart, machineVars
<1>2. CASE MachineStep
  BY <1>2 DEF MachineStep, Provision, VMRemoved, DaemonCrash
<1>3. ASSUME NEW d \in ConfigServers, NEW success \in BOOLEAN, LaunchConfigServer(d, success)
      PROVE  ConfigdbListed'
  BY <1>3 DEF LaunchConfigServer, MongocfgLaunch, LaunchConfigsvr
<1>4. ASSUME NEW r \in QueryRouters, NEW success \in BOOLEAN, LaunchQueryRouter(r, success)
      PROVE  ConfigdbListed'
  <2>1. cfgList'[r] = InOrder(addr, Launched(ConfigServers)) /\ LaunchRouter(r, cfgList'[r], success)
    BY <1>4 DEF LaunchQueryRouter, SetConfigServers, MongosLaunch, ProcessInv, TypeInv, TypeOK
  <2>2. addr \in AddressOrders /\ runsConfigdb \in [QueryRouters -> Clusters]
    BY DEF ProcessInv, TypeInv, TypeOK, MachinesTypeOK
  <2>3. InOrder(addr, Launched(ConfigServers)) \in ConfigServerLists
    BY <2>2 DEF ConfigServerLists, Launched
  <2> QED
    BY <2>1, <2>2, <2>3 DEF LaunchRouter
<1>5. ASSUME NEW S \in Candidates(rogueDataServers), NEW a \in SetAddresses, FormReplicaSet(S, a)
      PROVE  ConfigdbListed'
  BY <1>5 DEF FormReplicaSet, machineVars
<1>6. ASSUME NEW d \in DataServers, NEW success \in BOOLEAN, LaunchDataServer(d, success)
      PROVE  ConfigdbListed'
  BY <1>6 DEF LaunchDataServer, MongodLaunch, LaunchDataserver
<1>7. ASSUME NEW a \in SetAddresses, NEW reply \in Replies,
             InitiateReplicaSet(a, reply) \/ RegisterReplicaSet(a, reply)
      PROVE  ConfigdbListed'
  BY <1>7 DEF InitiateReplicaSet, ReplSetInitiate, RegisterReplicaSet, AddShard
<1>8. CASE InnerStep
  BY <1>8 DEF InnerStep, machineVars
<1> QED
  BY <1>1, <1>2, <1>3, <1>4, <1>5, <1>6, <1>7, <1>8, Steps

\* A step that marks nothing, stops counting no router as launched, and
\* restarts none that counts.
LEMMA NothingMarked ==
  ASSUME RegisteredThroughRouter, SameSets,
         \A a \in replicaSets : replicaSet'[a].registered => replicaSet[a].registered,
         launched \subseteq launched',
         \A r \in Launched(QueryRouters) : runsConfigdb'[r] = runsConfigdb[r],
         shards \subseteq shards'
  PROVE  RegisteredThroughRouter'
<1> SUFFICES ASSUME NEW a \in replicaSets, replicaSet[a].registered
             PROVE  \E r \in Launched(QueryRouters)' :
                      <<runsConfigdb'[r], <<replicaSet'[a].name, replicaSet'[a].dataServers>>>> \in shards'
  BY DEF RegisteredThroughRouter, SameSets
<1>1. PICK r \in Launched(QueryRouters) :
        <<runsConfigdb[r], <<replicaSet[a].name, replicaSet[a].dataServers>>>> \in shards
  BY DEF RegisteredThroughRouter
<1>2. r \in Launched(QueryRouters)'
  BY DEF Launched
<1> QED
  BY <1>1, <1>2 DEF SameSets, replicaSets

LEMMA RegisteredThroughRouterStep ==
  ASSUME ProcessInv, OwnSetsOnly, RegisteredThroughRouter, [Next]_vars
  PROVE  RegisteredThroughRouter'
<1>1. CASE Restart
  BY <1>1 DEF Restart, RegisteredThroughRouter, replicaSets
<1>2. ASSUME NEW S \in Candidates(rogueDataServers), NEW a \in SetAddresses, FormReplicaSet(S, a)
      PROVE  RegisteredThroughRouter'
  <2>1. UNCHANGED <<launched, runsConfigdb, shards>>
    BY <1>2 DEF FormReplicaSet, machineVars
  <2> QED
    BY <1>2, <2>1, FormedSet DEF RegisteredThroughRouter, Launched
<1>3. CASE SameSets
  <2> USE NothingMarked, <1>3
  <2>1. CASE MachineStep
    BY <2>1 DEF MachineStep, Provision, VMRemoved, DaemonCrash, memoryVars
  <2>2. ASSUME NEW d \in ConfigServers, NEW success \in BOOLEAN, LaunchConfigServer(d, success)
        PROVE  RegisteredThroughRouter'
    BY <2>2 DEF LaunchConfigServer, MongocfgLaunch, LaunchConfigsvr, SetLaunched
  <2>3. ASSUME NEW q \in QueryRouters, NEW success \in BOOLEAN, LaunchQueryRouter(q, success)
        PROVE  RegisteredThroughRouter'
    <3>1. q \notin Launched(QueryRouters)
      BY <2>3 DEF LaunchQueryRouter, IsFirst, ProcessInv, DeployInv, PhaseInv, Unlaunched, Launched
    <3>2. \A r \in Launched(QueryRouters) : runsConfigdb'[r] = runsConfigdb[r]
      BY <2>3, <3>1 DEF LaunchQueryRouter, MongosLaunch, LaunchRouter, ProcessInv, TypeInv, TypeOK,
                        MachinesTypeOK, Launched
    <3>3. launched \subseteq launched' /\ replicaSet' = replicaSet /\ shards' = shards
      BY <2>3 DEF LaunchQueryRouter, MongosLaunch, LaunchRouter, SetLaunched
    <3> QED
      BY <3>2, <3>3
  <2>4. ASSUME NEW d \in DataServers, NEW success \in BOOLEAN, LaunchDataServer(d, success)
        PROVE  RegisteredThroughRouter'
    BY <2>4 DEF LaunchDataServer, MongodLaunch, LaunchDataserver, SetLaunched
  <2>5. ASSUME NEW a \in SetAddresses, NEW reply \in Replies, InitiateReplicaSet(a, reply)
        PROVE  RegisteredThroughRouter'
    <3>1. UNCHANGED <<launched, runsConfigdb, shards>>
      BY <2>5 DEF InitiateReplicaSet, ReplSetInitiate
    <3>2. replicaSet \in [SetAddresses -> ReplicaSetObjects]
      BY DEF ProcessInv, TypeInv, TypeOK
    <3>3. replicaSet' = replicaSet \/ replicaSet' = [replicaSet EXCEPT ![a].launched = TRUE]
      BY <2>5 DEF InitiateReplicaSet
    <3>4. \A b \in replicaSets : replicaSet'[b].registered = replicaSet[b].registered
      BY <3>2, <3>3 DEF replicaSets, ReplicaSetObjects
    <3> QED
      BY <3>1, <3>4
  <2>6. ASSUME NEW a \in SetAddresses, NEW reply \in Replies, RegisterReplicaSet(a, reply)
        PROVE  RegisteredThroughRouter'
    <3>1. UNCHANGED <<launched, runsConfigdb>>
      BY <2>6 DEF RegisterReplicaSet, AddShard
    <3>2. shards \subseteq shards'
      BY <2>6, RegisterEffect
    <3>3. replicaSet \in [SetAddresses -> ReplicaSetObjects]
      BY DEF ProcessInv, TypeInv, TypeOK
    <3>4. CASE reply # "ok"
      BY <2>6, <3>1, <3>2, <3>4 DEF RegisterReplicaSet, MarkRegistered
    <3>5. CASE reply = "ok"
      <4>1. \A b \in replicaSets : b # a => replicaSet'[b].registered = replicaSet[b].registered
        BY <2>6, <3>3, <3>5 DEF RegisterReplicaSet, MarkRegistered, replicaSets
      <4>2. PICK r \in Launched(QueryRouters), s \in initiated, d \in replicaSet[a].dataServers :
              /\ d \in s[2] /\ d \in launched
              /\ shards' = shards \cup {<<runsConfigdb[r], s>>}
        BY <2>6, <3>5, RegisterEffect
      <4>3. a \in replicaSets /\ s \in OwnSets
        BY <2>6, <4>2, RegisterEffect DEF OwnSetsOnly
      <4>4. s = <<replicaSet[a].name, replicaSet[a].dataServers>>
        BY <4>2, <4>3, OwnSetUnique
      <4> QED
        BY <3>1, <3>2, <4>1, <4>2, <4>4 DEF RegisteredThroughRouter, SameSets, Launched, replicaSets
    <3> QED
      BY <3>4, <3>5
  <2>7. CASE InnerStep
    BY <2>7 DEF InnerStep, machineVars
  <2> QED
    BY <1>1, <1>2, <2>1, <2>2, <2>3, <2>4, <2>5, <2>6, <2>7, Steps
<1> QED
  BY <1>1, <1>2, <1>3, SetSteps DEF ProcessInv

------------------------------------------------------------------------------
(* The theorems.                                                            *)

ProcessClusterInv == ProcessInv /\ ClusterInv

LEMMA ClusterInvInit == Init => ProcessClusterInv
<1> SUFFICES ASSUME Init PROVE ClusterInv
  BY ProcessInvInit DEF ProcessClusterInv
<1>1. /\ running = {} /\ removed = {} /\ ready = InitiallyReady
      /\ initiated = {} /\ runsConfigdb = [r \in QueryRouters |-> <<>>]
      /\ replicaSets = {} /\ nextReplicaSetNo = 1
  BY DEF Init, MachinesInit, replicaSets
<1>2. SetsNumbered
  BY <1>1, FS_EmptySet DEF SetsNumbered
<1>3. ConfigdbListed
  <2>1. addr \in AddressOrders /\ {} \in SUBSET ConfigServers
    BY DEF Init
  <2>2. InOrder(addr, {}) = <<>>
    BY FS_EmptySet DEF InOrder
  <2>3. <<>> \in ConfigServerLists
    BY <2>1, <2>2 DEF ConfigServerLists
  <2> QED
    BY <1>1, <2>3 DEF ConfigdbListed
<1> QED
  BY <1>1, <1>2, <1>3 DEF ClusterInv, MachinesAlive, MembersStay, OwnSetsOnly, RegisteredThroughRouter

LEMMA ClusterInvStep ==
  ASSUME NotBothCrashAndRestart
  PROVE  ProcessClusterInv /\ [Next]_vars => ProcessClusterInv'
BY ProcessInvStep, MachinesAliveStep, MembersStayStep, OwnSetsOnlyStep, RegisteredThroughRouterStep,
   SetsNumberedStep, ConfigdbListedStep
   DEF ProcessClusterInv, ClusterInv

\* A replica set that is marked as registered is a shard of a cluster whose
\* router was launched, with exactly the members the process put into it,
\* whatever fails, except that daemons crash and nebu-mongo is restarted too.
THEOREM RegistrationSound ==
  ASSUME NotBothCrashAndRestart
  PROVE  Spec => []RegisteredSetsAreShards
<1>1. Init => ProcessClusterInv
  BY ClusterInvInit
<1>2. ProcessClusterInv /\ [Next]_vars => ProcessClusterInv'
  BY ClusterInvStep
<1>3. ProcessClusterInv => RegisteredSetsAreShards
  BY DEF ProcessClusterInv, ClusterInv, RegisteredThroughRouter, RegisteredSetsAreShards, Launched
<1> QED
  BY <1>1, <1>2, <1>3, PTL DEF Spec

------------------------------------------------------------------------------
(* The refinement.                                                          *)

\* replSetInitiate is Initiate: the name and the group are allowed, and no
\* member of the group is in a replica set of any name.
LEMMA InitiateImplemented ==
  ASSUME ProcessInv, SetsNumbered, OwnSetsOnly,
         NEW a \in SetAddresses, NEW reply \in Replies, InitiateReplicaSet(a, reply)
  PROVE  [Cluster!Next]_(Cluster!clusterVars)
<1> DEFINE name == replicaSet[a].name
           group == replicaSet[a].dataServers
<1>1. a \in replicaSets /\ group \subseteq launched
  BY InitiateEffect
<1>2. shards' = shards
  BY DEF InitiateReplicaSet, ReplSetInitiate
<1>3. CASE initiated' = initiated
  BY <1>2, <1>3 DEF Cluster!clusterVars
<1>4. CASE initiated' = initiated \cup {<<name, group>>} /\ CanInitiate(name, group)
  <2>1. name \in 1..Cardinality(SetAddresses)
    <3>1. replicaSets \in SUBSET SetAddresses
      BY DEF replicaSets
    <3>2. /\ Cardinality(replicaSets) \in Nat /\ Cardinality(SetAddresses) \in Nat
          /\ Cardinality(replicaSets) <= Cardinality(SetAddresses)
      BY <3>1, NebuMongoAssumption, FS_Subset, FS_CardinalityType
    <3>3. name \in 1..(nextReplicaSetNo - 1)
      BY <1>1 DEF ProcessInv, SetInv, NamesInUse
    <3> QED
      BY <3>2, <3>3 DEF SetsNumbered
  <2>2. group \in FitGroups /\ group # {}
    BY <1>1, SetFit
  <2>3. ASSUME NEW s \in initiated PROVE s[2] \cap group = {}
    <3> SUFFICES ASSUME s[2] \cap group # {} PROVE FALSE
      OBVIOUS
    <3>1. s \in OwnSets
      BY <1>1 DEF OwnSetsOnly
    <3>2. s = <<name, group>>
      BY <1>1, <3>1, OwnSetUnique
    <3> QED
      BY <1>4, <3>2 DEF CanInitiate
  <2>4. Cluster!Initiate(name, group)
    BY <1>2, <1>4, <2>3 DEF Cluster!Initiate
  <2> QED
    BY <2>1, <2>2, <2>4 DEF Cluster!Next
<1> QED
  BY <1>3, <1>4, InitiateEffect

\* addShard is AddShard, or changes nothing because the shard is there already.
LEMMA AddShardImplemented ==
  ASSUME ProcessInv, ConfigdbListed,
         NEW a \in SetAddresses, NEW reply \in Replies, RegisterReplicaSet(a, reply)
  PROVE  [Cluster!Next]_(Cluster!clusterVars)
<1>1. initiated' = initiated
  BY DEF RegisterReplicaSet, AddShard
<1>2. CASE shards' = shards
  BY <1>1, <1>2 DEF Cluster!clusterVars
<1>3. CASE shards' # shards
  <2>1. PICK r \in Launched(QueryRouters), s \in initiated, d \in replicaSet[a].dataServers :
          /\ CanAddShard(runsConfigdb[r], d, s)
          /\ shards' = shards \cup {<<runsConfigdb[r], s>>}
    BY <1>3, RegisterEffect
  <2>2. <<runsConfigdb[r], s>> \notin shards
    BY <1>3, <2>1
  <2>3. \A t \in initiated : <<runsConfigdb[r], t>> \in shards => t[1] # s[1]
    BY <2>1, <2>2 DEF CanAddShard
  <2>4. runsConfigdb[r] \in ConfigServerLists
    BY DEF ConfigdbListed, Launched
  <2>5. Cluster!AddShard(runsConfigdb[r], s)
    BY <1>1, <2>1, <2>3 DEF Cluster!AddShard
  <2> QED
    BY <2>4, <2>5 DEF Cluster!Next, ConfigServerLists
<1> QED
  BY <1>2, <1>3

\* What all processes together leave in MongoDB is what ShardedCluster allows:
\* a server in one replica set for good, of members that are fit for one, a
\* shard a whole replica set, one shard of a name in a cluster.
THEOREM ImplementsShardedCluster ==
  ASSUME NotBothCrashAndRestart
  PROVE  Spec => ClusterSpec
<1>1. Init => Cluster!Init
  BY DEF Init, MachinesInit, Cluster!Init
<1>2. ProcessClusterInv /\ [Next]_vars => [Cluster!Next]_(Cluster!clusterVars)
  <2> SUFFICES ASSUME ProcessClusterInv, [Next]_vars PROVE [Cluster!Next]_(Cluster!clusterVars)
    OBVIOUS
  <2>1. UNCHANGED <<initiated, shards>> => [Cluster!Next]_(Cluster!clusterVars)
    BY DEF Cluster!clusterVars
  <2>2. CASE Restart
    BY <2>1, <2>2 DEF Restart, machineVars
  <2>3. CASE MachineStep
    BY <2>1, <2>3 DEF MachineStep, Provision, VMRemoved, DaemonCrash
  <2>4. ASSUME NEW d \in ConfigServers, NEW success \in BOOLEAN, LaunchConfigServer(d, success)
        PROVE  [Cluster!Next]_(Cluster!clusterVars)
    BY <2>1, <2>4 DEF LaunchConfigServer, MongocfgLaunch, LaunchConfigsvr
  <2>5. ASSUME NEW r \in QueryRouters, NEW success \in BOOLEAN, LaunchQueryRouter(r, success)
        PROVE  [Cluster!Next]_(Cluster!clusterVars)
    BY <2>1, <2>5 DEF LaunchQueryRouter, MongosLaunch, LaunchRouter
  <2>6. ASSUME NEW S \in Candidates(rogueDataServers), NEW a \in SetAddresses, FormReplicaSet(S, a)
        PROVE  [Cluster!Next]_(Cluster!clusterVars)
    BY <2>1, <2>6 DEF FormReplicaSet, machineVars
  <2>7. ASSUME NEW d \in DataServers, NEW success \in BOOLEAN, LaunchDataServer(d, success)
        PROVE  [Cluster!Next]_(Cluster!clusterVars)
    BY <2>1, <2>7 DEF LaunchDataServer, MongodLaunch, LaunchDataserver
  <2>8. CASE InnerStep
    BY <2>1, <2>8 DEF InnerStep, machineVars
  <2> QED
    BY <2>2, <2>3, <2>4, <2>5, <2>6, <2>7, <2>8, Steps, InitiateImplemented, AddShardImplemented
       DEF ProcessClusterInv, ClusterInv
<1>3. ProcessClusterInv /\ [Next]_vars => ProcessClusterInv'
  BY ClusterInvStep
<1> QED
  BY <1>1, <1>2, <1>3, ClusterInvInit, PTL DEF Spec, ClusterSpec, Cluster!Spec
==============================================================================
