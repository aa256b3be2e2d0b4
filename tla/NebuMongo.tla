----------------------------- MODULE NebuMongo -----------------------------
(***************************************************************************)
(* The nebu-mongo process: it learns of virtual machines, and in every     *)
(* deployment pass launches config servers, query routers and data         *)
(* servers, groups data servers into replica sets and registers these as   *)
(* shards. The process has one thread; a step of this specification goes   *)
(* from one use of the outside world (a script, a command) to the next, so *)
(* that what happens to the machines, the clock and the process itself     *)
(* can fall between any two of them.                                       *)
(***************************************************************************)
EXTENDS Machines, Placement, AddressOrder

CONSTANTS
  RequiredConfigServers,  \* mongo.config.requirednumber
  SetAddresses,           \* where ReplicaSet objects may be allocated
  AddressOrders,          \* the possible addresses of the daemon objects
  Topology                \* where the data servers' machines are, see Placement

ASSUME NebuMongoAssumption ==
  /\ RequiredConfigServers \in Nat \ {0}
  /\ SetAddresses \subseteq Nat /\ IsFiniteSet(SetAddresses)
  /\ AddressOrders \subseteq [VM -> Nat]
  /\ \A addr \in AddressOrders : \A v, w \in VM : v # w => addr[v] # addr[w]

VARIABLES
  addr,              \* VM -> the address of its Daemon object, if there is one
  discovered,        \* the VMs in the daemon collection
  age,               \* data server -> secondsSinceDiscovery(), see Tick
  launched,          \* the daemons whose flag `launched` is set
  replSet,           \* data server -> MongodDaemon::replSet, 0 for ""
  cfgList,           \* query router -> MongosDaemon::cfgList
  replicaSet,        \* address -> ReplicaSet object
  nextReplicaSetNo,
  pc,                \* where the pass is
  todo,              \* the daemons the innermost loop has yet to visit
  setTodo            \* the replica sets the loop over them has yet to finish

memoryVars == <<discovered, age, launched, replSet, cfgList, replicaSet, nextReplicaSetNo>>
passVars   == <<pc, todo, setTodo>>
vars       == <<machineVars, addr, memoryVars, passVars>>

\* A ReplicaSet object that was neither launched nor registered.
NewReplicaSet(no, servers) ==
  [name |-> no, dataServers |-> servers, launched |-> FALSE, registered |-> FALSE]

NoReplicaSet == NewReplicaSet(0, {})  \* no object is allocated at the address

ReplicaSetObjects ==
  [name : Nat, dataServers : SUBSET DataServers, launched : BOOLEAN, registered : BOOLEAN]

\* ReplicaSetManager::replicaSets
replicaSets == {a \in SetAddresses : replicaSet[a] # NoReplicaSet}

\* The age at which the wait for racks is over; the code makes no other use of
\* ages, so the model does not tell older ones apart.
AgeCap == IF RackWaitTimeout < 0 THEN 0 ELSE RackWaitTimeout + 1

Phases == {"idle", "config", "routers", "data", "sets", "members"}

TypeOK ==
  /\ MachinesTypeOK
  /\ addr \in AddressOrders
  /\ discovered \subseteq VM
  /\ age \in [DataServers -> 0..AgeCap]
  /\ launched \subseteq discovered
  /\ replSet \in [DataServers -> Nat]
  /\ cfgList \in [QueryRouters -> Clusters]
  /\ replicaSet \in [SetAddresses -> ReplicaSetObjects]
  /\ nextReplicaSetNo \in Nat \ {0}
  /\ pc \in Phases
  /\ todo \subseteq discovered
  /\ setTodo \subseteq replicaSets

Init ==
  /\ MachinesInit
  /\ addr \in AddressOrders
  /\ discovered = {}
  /\ age = [d \in DataServers |-> 0]
  /\ launched = {}
  /\ replSet = [d \in DataServers |-> 0]
  /\ cfgList = [r \in QueryRouters |-> <<>>]
  /\ replicaSet = [a \in SetAddresses |-> NoReplicaSet]
  /\ nextReplicaSetNo = 1
  /\ pc = "idle"
  /\ todo = {}
  /\ setTodo = {}

\* An exception leaves deployDaemons; what was done so far stays done.
AbortPass == pc' = "idle" /\ todo' = {} /\ setTodo' = {}

------------------------------------------------------------------------------
(* Discovery, time and restarts. *)

\* DaemonManager::newVMAdded, called between two passes. A machine of unknown
\* type is ignored.
NewVMAdded(vm) ==
  /\ pc = "idle"
  /\ vm \notin discovered \cup removed
  /\ getTypeFromHostname(Hostname[vm]) # "UNKNOWN"
  /\ discovered' = discovered \cup {vm}
  /\ UNCHANGED <<machineVars, addr, age, launched, replSet, cfgList, replicaSet,
                 nextReplicaSetNo, passVars>>

\* A second passes for every daemon. Only data servers are asked for their age.
Tick ==
  /\ \E d \in discovered \cap DataServers : age[d] < AgeCap
  /\ age' = [d \in DataServers |->
               IF d \in discovered /\ age[d] < AgeCap THEN age[d] + 1 ELSE age[d]]
  /\ UNCHANGED <<machineVars, addr, discovered, launched, replSet, cfgList, replicaSet,
                 nextReplicaSetNo, passVars>>

\* The daemon collection is empty in a new process. Mutant: a flag outlives it.
ForgetVMsOnly == discovered' = {} /\ UNCHANGED launched
ForgetDaemons == discovered' = {} /\ launched' = {}

\* The process ends, wherever it is, and a new one starts with empty memory.
Restart ==
  /\ "restart" \in Faults
  /\ addr' \in AddressOrders
  /\ ForgetDaemons
  /\ age' = [d \in DataServers |-> 0]
  /\ replSet' = [d \in DataServers |-> 0]
  /\ cfgList' = [r \in QueryRouters |-> <<>>]
  /\ replicaSet' = [a \in SetAddresses |-> NoReplicaSet]
  /\ nextReplicaSetNo' = 1
  /\ AbortPass
  /\ UNCHANGED machineVars

MachineStep ==
  /\ \E vm \in VM : Provision(vm) \/ VMRemoved(vm) \/ DaemonCrash(vm)
  /\ UNCHANGED <<addr, memoryVars, passVars>>

------------------------------------------------------------------------------
(* DaemonDeployer::deployDaemons: config servers, then query routers.       *)

Launched(type)   == launched \cap type
Unlaunched(type) == (discovered \cap type) \ launched

\* Mutants of configServersActive: servers count once they are discovered; one
\* more than required is asked for.
DiscoveredConfigServersActive == Cardinality(discovered \cap ConfigServers) >= RequiredConfigServers
MoreConfigServersActive == Cardinality(Launched(ConfigServers)) > RequiredConfigServers

configServersActive == Cardinality(Launched(ConfigServers)) >= RequiredConfigServers
queryRouterActive   == Launched(QueryRouters) # {}

DeployDaemons ==
  /\ pc = "idle"
  /\ IF configServersActive
     THEN pc' = "routers" /\ todo' = Unlaunched(QueryRouters)
     ELSE pc' = "config"  /\ todo' = Unlaunched(ConfigServers)
  /\ UNCHANGED <<machineVars, addr, memoryVars, setTodo>>

\* The launch methods: a daemon counts as launched once its script exits with 0.
SetLaunched(d, success) == launched' = IF success THEN launched \cup {d} ELSE launched
MongocfgLaunch(d, success) == LaunchConfigsvr(d, success) /\ SetLaunched(d, success)
MongosLaunch(r, success) == LaunchRouter(r, cfgList'[r], success) /\ SetLaunched(r, success)
MongodLaunch(d, success) == LaunchDataserver(d, replSet[d], success) /\ SetLaunched(d, success)

\* The loop goes on to the next daemon.
DoneWith(d) == todo' = todo \ {d}

\* One iteration of deployConfigServers.
LaunchConfigServer(d, success) ==
  /\ pc = "config"
  /\ ~ configServersActive
  /\ IsFirst(addr, todo, d)
  /\ MongocfgLaunch(d, success)
  /\ DoneWith(d)
  /\ UNCHANGED <<addr, discovered, age, replSet, cfgList, replicaSet, nextReplicaSetNo, pc, setTodo>>

ConfigServersDone ==
  /\ pc = "config"
  /\ todo = {} \/ configServersActive
  /\ IF configServersActive
     THEN pc' = "routers" /\ todo' = Unlaunched(QueryRouters)
     ELSE pc' = "idle" /\ todo' = {}
  /\ UNCHANGED <<machineVars, addr, memoryVars, setTodo>>

SetConfigServers(r) == cfgList' = [cfgList EXCEPT ![r] = InOrder(addr, Launched(ConfigServers))]

\* One iteration of deployQueryRouters.
LaunchQueryRouter(r, success) ==
  /\ pc = "routers"
  /\ IsFirst(addr, todo, r)
  /\ SetConfigServers(r)
  /\ MongosLaunch(r, success)
  /\ DoneWith(r)
  /\ UNCHANGED <<addr, discovered, age, replSet, replicaSet, nextReplicaSetNo, pc, setTodo>>

QueryRoutersDone ==
  /\ pc = "routers"
  /\ todo = {}
  /\ pc' = "data"
  /\ UNCHANGED <<machineVars, addr, memoryVars, todo, setTodo>>

------------------------------------------------------------------------------
(* deployDataServers: group the data servers that are in no replica set.    *)

\* Mutant of rogueDataServers: a server counts as free until it is launched.
unlaunchedDataServers == (discovered \cap DataServers) \ launched

rogueDataServers == {d \in discovered \cap DataServers : replSet[d] = 0}

\* selectReplicaSet's answer: the best candidate, if the policy accepts it.
IsAcceptedSelection(S) ==
  /\ IsSelected(Topology, addr, rogueDataServers, S)
  /\ isAcceptableReplicaSet(Topology, age, S)

\* ReplicaSet::setName passes the name on. Mutants: it does not; only to the
\* first member.
SetReplSetOnly(S, no) == UNCHANGED replSet
SetReplSetOfFirst(S, no) ==
  replSet' = [d \in DataServers |-> IF IsFirst(addr, S, d) THEN no ELSE replSet[d]]
SetReplSet(S, no) == replSet' = [d \in DataServers |-> IF d \in S THEN no ELSE replSet[d]]

\* One iteration of the loop, with ReplicaSetManager::addReplicaSet.
FormReplicaSet(S, a) ==
  /\ pc = "data"
  /\ IsAcceptedSelection(S)
  /\ a \in SetAddresses \ replicaSets
  /\ replicaSet' = [replicaSet EXCEPT ![a] = NewReplicaSet(nextReplicaSetNo, S)]
  /\ SetReplSet(S, nextReplicaSetNo)
  /\ nextReplicaSetNo' = nextReplicaSetNo + 1
  /\ UNCHANGED <<machineVars, addr, discovered, age, launched, cfgList, passVars>>

\* Too few servers are left or the selection is refused. With a query router,
\* registerReplicaSetsWithRouter comes next.
DataServersDone ==
  /\ pc = "data"
  /\ \A S \in Candidates(rogueDataServers) : ~ IsAcceptedSelection(S)
  /\ IF queryRouterActive
     THEN pc' = "sets" /\ setTodo' = replicaSets
     ELSE pc' = "idle" /\ UNCHANGED setTodo
  /\ UNCHANGED <<machineVars, addr, memoryVars, todo>>

------------------------------------------------------------------------------
(* registerReplicaSetsWithRouter: launch and register the replica sets.     *)

IsCurrentSet(a) == a \in setTodo /\ \A b \in setTodo : a <= b

SkipReplicaSet(a) ==
  /\ pc = "sets"
  /\ IsCurrentSet(a)
  /\ replicaSet[a].launched /\ replicaSet[a].registered
  /\ setTodo' = setTodo \ {a}
  /\ UNCHANGED <<machineVars, addr, memoryVars, pc, todo>>

\* Mutant of MembersToLaunch: members are launched again.
AllMembers(a) == replicaSet[a].dataServers

\* ReplicaSet::launch visits the members that have not been launched.
MembersToLaunch(a) == replicaSet[a].dataServers \ launched

LaunchReplicaSet(a) ==
  /\ pc = "sets"
  /\ IsCurrentSet(a)
  /\ ~ replicaSet[a].launched
  /\ pc' = "members"
  /\ todo' = MembersToLaunch(a)
  /\ UNCHANGED <<machineVars, addr, memoryVars, setTodo>>

\* The first member that cannot be launched ends the attempt. Mutants: it is
\* passed over; it is tried again at once.
NextMemberAnyway(d, success) == DoneWith(d) /\ UNCHANGED <<pc, setTodo>>
NextMemberRetried(d, success) ==
  (IF success THEN DoneWith(d) ELSE UNCHANGED todo) /\ UNCHANGED <<pc, setTodo>>
NextMember(d, success) ==
  IF success
  THEN DoneWith(d) /\ UNCHANGED <<pc, setTodo>>
  ELSE /\ todo' = {}
       /\ pc' = "sets"
       /\ \E a \in setTodo : IsCurrentSet(a) /\ setTodo' = setTodo \ {a}

LaunchDataServer(d, success) ==
  /\ pc = "members"
  /\ IsFirst(addr, todo, d)
  /\ MongodLaunch(d, success)
  /\ NextMember(d, success)
  /\ UNCHANGED <<addr, discovered, age, replSet, cfgList, replicaSet, nextReplicaSetNo>>

\* The members replSetInitiate is sent. Mutant: the loop ends after the first.
FirstMember(a) == {d \in replicaSet[a].dataServers : IsFirst(addr, replicaSet[a].dataServers, d)}
MemberArray(a) == replicaSet[a].dataServers

\* initiateReplicaSet returns true whatever MongoDB answers.
InitiateReplicaSet(a, reply) ==
  /\ pc = "members"
  /\ todo = {}
  /\ IsCurrentSet(a)
  /\ \E d \in replicaSet[a].dataServers :
       /\ IsFirst(addr, replicaSet[a].dataServers, d)
       /\ ReplSetInitiate(d, replSet[d], MemberArray(a), reply)
  /\ IF reply = "throws"
     THEN AbortPass /\ UNCHANGED replicaSet
     ELSE /\ replicaSet' = [replicaSet EXCEPT ![a].launched = TRUE]
          /\ pc' = "sets"
          /\ UNCHANGED <<todo, setTodo>>
  /\ UNCHANGED <<addr, discovered, age, launched, replSet, cfgList, nextReplicaSetNo>>

\* Only an ok marks the set. Mutant: any answer does.
MarkAnyway(a, reply) ==
  replicaSet' = IF reply # "throws" THEN [replicaSet EXCEPT ![a].registered = TRUE] ELSE replicaSet
MarkRegistered(a, reply) ==
  replicaSet' = IF reply = "ok" THEN [replicaSet EXCEPT ![a].registered = TRUE] ELSE replicaSet

\* registerReplicaSetWithRouter, always with the first launched router.
RegisterReplicaSet(a, reply) ==
  /\ pc = "sets"
  /\ IsCurrentSet(a)
  /\ replicaSet[a].launched /\ ~ replicaSet[a].registered
  /\ \E r \in Launched(QueryRouters), d \in replicaSet[a].dataServers :
       /\ IsFirst(addr, Launched(QueryRouters), r)
       /\ IsFirst(addr, replicaSet[a].dataServers, d)
       /\ AddShard(r, replicaSet[a].name, d, reply)
  /\ IF reply = "throws"
     THEN AbortPass
     ELSE setTodo' = setTodo \ {a} /\ UNCHANGED <<pc, todo>>
  /\ MarkRegistered(a, reply)
  /\ UNCHANGED <<addr, discovered, age, launched, replSet, cfgList, nextReplicaSetNo>>

SetsDone ==
  /\ pc = "sets"
  /\ setTodo = {}
  /\ pc' = "idle"
  /\ UNCHANGED <<machineVars, addr, memoryVars, todo, setTodo>>

------------------------------------------------------------------------------
ConfigServersStep ==
  ConfigServersDone \/ \E d \in ConfigServers, success \in BOOLEAN : LaunchConfigServer(d, success)

QueryRoutersStep ==
  QueryRoutersDone \/ \E r \in QueryRouters, success \in BOOLEAN : LaunchQueryRouter(r, success)

DataServersStep ==
  DataServersDone \/ \E S \in Candidates(rogueDataServers), a \in SetAddresses : FormReplicaSet(S, a)

ReplicaSetsStep ==
  \/ \E a \in SetAddresses :
       \/ SkipReplicaSet(a)
       \/ LaunchReplicaSet(a)
       \/ \E reply \in Replies : InitiateReplicaSet(a, reply) \/ RegisterReplicaSet(a, reply)
  \/ \E d \in DataServers, success \in BOOLEAN : LaunchDataServer(d, success)
  \/ SetsDone

PassStep == ConfigServersStep \/ QueryRoutersStep \/ DataServersStep \/ ReplicaSetsStep

Next ==
  \/ \E vm \in VM : NewVMAdded(vm)
  \/ Tick
  \/ Restart
  \/ MachineStep
  \/ DeployDaemons
  \/ PassStep

Spec == Init /\ [][Next]_vars

(***************************************************************************)
(* Fairness. The framework polls Nebu for ever and calls deployDaemons     *)
(* after each poll, and the pass is one thread (WF); every poll reports    *)
(* every machine, but machines are only added between passes (SF); puppet  *)
(* and the clock go on (WF). Of the outside world it is assumed that what  *)
(* is retried over and over succeeds some day: a script starts its daemon  *)
(* and says so, replSetInitiate is answered, a replica set is added. Each  *)
(* of these happens once, so one SF for all of them is enough. Nor does    *)
(* addShard lose its connection every time, even if it changes nothing.    *)
(***************************************************************************)
Success ==
  \/ \E d \in ConfigServers : LaunchConfigServer(d, TRUE)
  \/ \E r \in QueryRouters : LaunchQueryRouter(r, TRUE)
  \/ \E d \in DataServers : LaunchDataServer(d, TRUE)
  \/ \E a \in SetAddresses :
       \/ \E reply \in {"ok", "error"} : InitiateReplicaSet(a, reply)
       \/ RegisterReplicaSet(a, "ok") /\ shards' # shards

AddShardAnswered ==
  \E a \in SetAddresses, reply \in {"ok", "error"} : RegisterReplicaSet(a, reply)

PassFairness == WF_vars(PassStep)

Fairness ==
  /\ PassFairness
  /\ WF_vars(DeployDaemons)
  /\ SF_vars(\E vm \in VM : NewVMAdded(vm))
  /\ WF_vars(Tick)
  /\ WF_vars(\E vm \in VM : Provision(vm) /\ UNCHANGED <<addr, memoryVars, passVars>>)
  /\ SF_vars(Success)
  /\ SF_vars(AddShardAnswered)

PassFairSpec == Spec /\ PassFairness
FairSpec     == Spec /\ Fairness

------------------------------------------------------------------------------
(* Invariants of a process, whatever happens around it.                     *)

\* A data server is in one replica set at most and two sets have different
\* names: FormReplicaSet chooses only servers without a set, over many passes.
OneSetPerServer ==
  \A a, b \in replicaSets : a # b =>
    /\ replicaSet[a].dataServers \cap replicaSet[b].dataServers = {}
    /\ replicaSet[a].name # replicaSet[b].name

\* A data server is launched and initiated under replSet; that is the name of
\* the replica set it is a member of, and of no set if it is in none.
NamesAgree ==
  /\ \A a \in replicaSets : \A d \in replicaSet[a].dataServers : replSet[d] = replicaSet[a].name
  /\ \A d \in DataServers : replSet[d] # 0 => \E a \in replicaSets : d \in replicaSet[a].dataServers

\* Every replica set has ReplicationFactor members, no two on one host or one
\* store, on at least MinRacks racks unless even the member discovered last has
\* been known for longer than the timeout. The sets are formed over many passes
\* from servers that were discovered at different times; a set whose wait was
\* taken for over too early stands out here until all its members are that old.
SetsWellPlaced ==
  \A a \in replicaSets :
    LET S == replicaSet[a].dataServers
    IN  /\ Cardinality(S) = ReplicationFactor
        /\ \A c, d \in S : c # d => /\ Topology.host[c] # Topology.host[d]
                                    /\ Topology.store[c] # Topology.store[d]
        /\ \/ MinRacks \in 0..Cardinality({RackOf(Topology)[d] : d \in S})
           \/ RackWaitTimeout >= 0 /\ ~ \E d \in S : age[d] <= RackWaitTimeout

\* Deployment goes by stages: no router is launched before the config servers
\* are active, no data server before a router, no replica set counts as
\* launched before its members, none as registered before it is launched.
DeploymentOrder ==
  /\ queryRouterActive => configServersActive
  /\ Launched(DataServers) # {} => queryRouterActive
  /\ \A a \in replicaSets :
       /\ replicaSet[a].launched => replicaSet[a].dataServers \subseteq launched
       /\ replicaSet[a].registered => replicaSet[a].launched

\* No more config servers are taken into service than the cluster needs.
ConfigServerQuota == Cardinality(Launched(ConfigServers)) <= RequiredConfigServers

(***************************************************************************)
(* What makes these invariants inductive.                                   *)
(***************************************************************************)
MembersDiscovered == \A a \in SetAddresses : replicaSet[a].dataServers \subseteq discovered

\* The numbers given out so far, and no others, are names.
NamesInUse == \A a \in replicaSets : replicaSet[a].name \in 1..(nextReplicaSetNo - 1)

\* What a pass has established when it is in a phase, and what is left to do.
PhaseInv ==
  /\ pc = "config" => todo \subseteq Unlaunched(ConfigServers)
  /\ pc = "routers" => todo \subseteq Unlaunched(QueryRouters)
  /\ pc = "members" => \E a \in setTodo :
       IsCurrentSet(a) /\ ~ replicaSet[a].launched /\ todo = replicaSet[a].dataServers \ launched
  /\ pc \in {"idle", "data", "sets"} => todo = {}
  /\ pc \notin {"sets", "members"} => setTodo = {}
  /\ pc \notin {"idle", "config"} => configServersActive
  /\ pc \in {"sets", "members"} => queryRouterActive

------------------------------------------------------------------------------
(* The process and the machines.                                            *)

NoRestart == "restart" \notin Faults

Lists(configdb, servers) ==
  /\ Len(configdb) = Cardinality(servers)
  /\ {configdb[i] : i \in DOMAIN configdb} = servers

\* MongoDB requires the routers of a cluster to have the same --configdb. All
\* routers that run, whenever they were launched, were given the same list, in
\* the same order, of exactly the config servers in service.
RoutersAgree ==
  NoRestart =>
    /\ \A q, r \in running \cap QueryRouters : runsConfigdb[q] = runsConfigdb[r]
    /\ \A r \in running \cap QueryRouters :
         Lists(runsConfigdb[r], Launched(ConfigServers)) /\ Len(runsConfigdb[r]) = RequiredConfigServers

\* A data server that runs was started under the name of the set it is in now.
RunningUnderSetName ==
  NoRestart =>
    \A d \in running \cap DataServers : runsReplSet[d] = replSet[d] /\ replSet[d] # 0

\* A set that is marked as registered is a shard: MongoDB has initiated exactly
\* its members as a replica set of its name, and a router that was launched
\* has it in its cluster.
RegisteredSetsAreShards ==
  \A a \in replicaSets : replicaSet[a].registered =>
    \E r \in QueryRouters :
      <<runsConfigdb[r], <<replicaSet[a].name, replicaSet[a].dataServers>>>> \in shards

FitGroups == {S \in Candidates(DataServers) : isAcceptableHostLocality(Topology, S)}

\* What MongoDB holds is what ShardedCluster allows. A restarted process knows
\* nothing of it, gives out the old names again and forms other groups, but the
\* daemons of the last process hold their ports. (A crash of these daemons and
\* a restart together would void it: see the README.)
Cluster == INSTANCE ShardedCluster WITH
  Groups      <- FitGroups,
  Names       <- 1..Cardinality(SetAddresses),
  Clusters    <- {InOrder(order, S) : order \in AddressOrders, S \in SUBSET ConfigServers},
  replicaSets <- initiated

ClusterSpec == Cluster!Spec

\* All the query routers that run belong to one cluster.
SingleCluster ==
  \A q, r \in running \cap QueryRouters :
    {runsConfigdb[q][i] : i \in DOMAIN runsConfigdb[q]} = {runsConfigdb[r][i] : i \in DOMAIN runsConfigdb[r]}

------------------------------------------------------------------------------
(* Progress.                                                                *)

\* A pass ends, whatever the scripts and commands in it return: the loops over
\* daemons, the grouping of data servers, and the loops over replica sets and
\* their members all terminate. (A call that hangs is not covered.)
PassTerminates == pc # "idle" ~> pc = "idle"

InShard(d) == \E s \in shards : d \in s[2][2]

\* Machines that the set of d cannot do without were removed.
Crippled(d) ==
  \/ \E e \in removed \cap DataServers : replSet[e] = replSet[d]
  \/ removed \cap ConfigServers # {}
  \/ QueryRouters \subseteq removed

\* README: "Whenever new machines are deployed through Nebu, the MongoDB
\* extension will deploy MongoDB on those machines and add them to the cluster."
\* A data server that was put into a replica set becomes part of a shard,
\* unless machines it needs are taken away.
JoinsCluster == \A d \in DataServers : replSet[d] # 0 ~> InShard(d) \/ Crippled(d)

\* README: nebu-mongo "does not currently daemonize", it is run "using e.g.
\* screen". The promise includes a process that was restarted: if restarts end,
\* every data server gets into a shard, unless machines are taken away.
JoinsAfterRestart ==
  <>[][~ Restart]_vars => \A d \in DataServers : <>(InShard(d) \/ Crippled(d))

\* Data servers do not stay out of a replica set for ever while there are
\* enough of them. (True where any servers may form a set once they waited.)
NoServersLeftOver == <>[](Cardinality({d \in DataServers : replSet[d] = 0}) < ReplicationFactor)

Members(Field(_)) == {replicaSet[a].dataServers : a \in {b \in replicaSets : Field(replicaSet[b])}}

\* The replica sets of a process live the life ShardLifecycle describes.
Lifecycle == INSTANCE ShardLifecycle WITH
  Groups     <- FitGroups,
  formed     <- Members(LAMBDA o : TRUE),
  launched   <- Members(LAMBDA o : o.launched),
  registered <- Members(LAMBDA o : o.registered)

LifecycleSpec     == Lifecycle!Spec
LifecycleFairSpec == Lifecycle!FairSpec
==============================================================================
