# A TLA+ model of nebu-mongo

nebu-mongo (`src/src`, `src/include`, `src/scripts`) polls the Nebu core for
virtual machines and deploys a sharded MongoDB cluster on them: config servers,
query routers, and data servers grouped into replica sets that become shards.
This directory holds TLA+ modules for that program, TLC configurations that
check them on small deployments, and TLAPS proofs, for every deployment, of all
the safety invariants these runs check and of the refinements.

## 1. The system

| Component | State it keeps | Operations | Interacts with |
|---|---|---|---|
| `DaemonManager` | (the framework's `DaemonCollection`) | `newVMAdded`, `deployDaemons`; `oldVMRemoved`, `existingVMChanged`, `refreshDaemons` do nothing | called by the framework's polling thread; calls the deployer |
| `DaemonDeployer` | none | `deployDaemons` and its four parts; `selectReplicaSet`, `distanceFunction`, the locality policy | reads the daemon collection and the topology, launches daemons, hands sets to the manager |
| `ReplicaSetManager` | `replicaSets`, `nextReplicaSetNo` | `addReplicaSet`, `registerReplicaSetsWithRouter` | calls `ReplicaSet::launch`, `MongosDaemon::registerReplicaSet` |
| `ReplicaSet` | `dataServers`, `name`, `launched`, `registered` | `addDataServers`, `setName`, `launch`, `setRegistered` | writes the name into its members, launches and initiates them |
| `MongodDaemon`, `MongosDaemon`, `MongocfgDaemon` | `launched`; `replSet`; `cfgList` | `launch`, `initiateReplicaSet`, `setConfigServers`, `registerReplicaSet` | run a launch script, send a command through `MongoAdapter` |
| `MongoAdapter` | a singleton | `executeCommand` | throws when it cannot connect or loses the connection |
| launch scripts | none; processes on the machines | test `.puppetcomplete`, start `mongod`/`mongos` | report by exit code over ssh |
| `MongoApplication` | creates the objects once | default options | the framework |

The process is single-threaded: the framework polls, calls `newVMAdded` for
every machine it has not seen, then `deployDaemons`. What makes it hard is what
happens around that thread. Scripts and commands are remote and can fail, take
effect and seem to fail, or be answered with an error that the code ignores; an
exception ends the whole pass; machines disappear between any two of them; the
process keeps everything in memory and forgets it when it is restarted, while
the daemons it launched go on; iteration follows pointer values, which differ
from one run to the next; and whether a replica set may be formed depends on
time. `PROJECT.json` lists these hazards with the line where each one bites and
the properties that cover it.

What makes each component correct:

* selection: it finds the best set of unplaced servers, visits every choice,
  ends, does not depend on the addresses more than by its tie-break, and the
  policy never refuses it while a well spread set exists;
* replica sets: disjoint, distinctly named, as large and as spread as the
  policy asks, each member running under the name of its set;
* deployment: in stages, exactly as many config servers as required, all
  routers with the same list of them;
* registration: what is marked as registered is a shard in MongoDB, and what is
  formed becomes one if the machines it needs stay;
* the databases left behind by any number of processes: a server in one replica
  set for good, a shard a whole replica set, one shard of a name per cluster.

## 2. The modules

| Module | Models |
|---|---|
| `HostTypes` | `getTypeFromHostname`: the type of a machine from the prefix of its hostname |
| `Placement` | operators: the distance of a candidate set, `Distance::compare`, the locality policy, and `IsSelected`, the specification of `selectReplicaSet` |
| `AddressOrder` | iteration over a `std::set` of pointers |
| `ReplicaSelection` | the loop of `selectReplicaSet` over index vectors; implements `IsSelected` |
| `DistanceFunction` | the loops of `distanceFunction`; implements `Placement!distanceFunction` |
| `Machines` | the outside: machines, the effect of the launch scripts, what MongoDB does with the two commands, and the faults of all these |
| `NebuMongo` | the process: discovery, time, restarts and the deployment pass; EXTENDS `Machines`, `Placement`, `AddressOrder` |
| `ShardLifecycle` | the abstract promise of one process: groups are formed once and disjoint, then launched, then registered |
| `ShardedCluster` | the abstract promise of all processes together: what MongoDB may hold, as its users see it |
| `PlacementProofs` | theorems about the operators of `Placement` and `AddressOrder` |
| `ReplicaSelectionProofs`, `DistanceFunctionProofs` | theorems about the two algorithms |
| `NebuMongoProofs`, `NebuMongoSafety` | theorems about the process: types, replica sets, stages of deployment |
| `NebuMongoMachines` | theorems about the process and the daemons that run |
| `NebuMongoCluster`, `NebuMongoLifecycle` | the two refinements of `NebuMongo` |
| `MC...` | instances for TLC |

`NebuMongo` refines both abstract specifications, under a mapping each:
`Lifecycle` maps the `ReplicaSet` objects of the process and speaks of nothing
outside it; `Cluster` maps what is in the data directories and the config
servers and speaks of nothing inside it, so a restart is a stutter there.

`ReplicaSelection` and `DistanceFunction` take the two algorithms apart step by
step. `NebuMongo` uses their specifications: one `FormReplicaSet` step is a
whole call of `selectReplicaSet` that was accepted, with `addReplicaSet`, which
is sound because nothing else touches the data in between, and because the two
specifications are what the loops compute, exactly one answer for every input
(`DistanceComputed`, `WalkSelectsBest`, `ExactlyOneSelected`, section 4).

**State.** A variable of `NebuMongo` is a member variable of the code:
`discovered` and `launched` are the daemon collection and the daemons' flags,
`replSet` and `cfgList` the fields of the daemons, `replicaSet` maps an address
to the `ReplicaSet` object there, `nextReplicaSetNo` is the manager's. `pc`,
`todo` and `setTodo` stand for where the thread is and what its loops have yet
to visit. A name `rs<n>` is the number n, and the empty name is 0. Addresses
are arbitrary, distinct numbers: `addr` for daemons, `SetAddresses` for
replica sets (a set may get any address that is free).

**Steps.** A step runs from one use of the outside world to the next, so machine
removals, ticks and restarts can fall between any two scripts or commands:

| Action | Code |
|---|---|
| `NewVMAdded`, `Tick`, `Restart`, `MachineStep` | `newVMAdded`; the clock; a new process; the empty `oldVMRemoved` |
| `DeployDaemons`, `ConfigServersDone`, `QueryRoutersDone` | the branches of `deployDaemons` |
| `LaunchConfigServer`, `LaunchQueryRouter` | one iteration of `deployConfigServers`, `deployQueryRouters` |
| `FormReplicaSet`, `DataServersDone` | one iteration and the end of `deployDataServers` |
| `SkipReplicaSet`, `LaunchReplicaSet`, `LaunchDataServer`, `InitiateReplicaSet` | `ReplicaSet::launch` in the manager's loop |
| `RegisterReplicaSet`, `SetsDone` | `registerReplicaSetWithRouter`, the end of the pass |

`age` is capped one above the timeout (`AgeCap`): the code only asks whether an
age exceeds it. When `RackWaitTimeout` is negative the code never asks.

**The outside.** `Machines` is modelled from what the scripts and the commands
rely on. `running` are the daemons that run, `runsReplSet` and `runsConfigdb`
the arguments they were started with. A script succeeds only on a machine that
is ready and where no daemon holds the port. `initiated` is what
`replSetInitiate` leaves in the data directories: a pair of a name and its
members stands for the configuration in the directory `mongod-<name>` of each
member, and it outlives daemons and processes. `replSetInitiate` can succeed
when every member runs under the name and has no configuration in the directory
of that name (`CanInitiate`); `addShard` when the cluster's config servers run,
the server belongs to a replica set of that name of which a majority runs, and
the cluster has no other shard of the name (`CanAddShard`); a shard that is
there already may be accepted again or refused. The constant `Faults` says which
further failures a run admits:

| Fault | What may happen |
|---|---|
| `script` | a launch script fails and starts nothing |
| `lostExit` | a daemon is started and the script is reported as failed |
| `network` | a command is not delivered; `executeCommand` throws |
| `lostReply` | a command takes effect and `executeCommand` throws |
| `refused` | MongoDB answers with an error where it might have obeyed |
| `vmRemoved` | a machine disappears |
| `crash` | a daemon stops, its data directory stays, its flag `launched` too |
| `restart` | nebu-mongo ends anywhere and is started again with empty memory |

An exception of `executeCommand` ends the pass (`AbortPass`); whether the
framework, which is not in the repository, survives it is left open, the other
outcome being `Restart`.

## 3. What TLC checks

| Run | Instance | Properties |
|---|---|---|
| `replica_selection` | 3 to 5 servers on every assignment to 4 hosts, 3 racks, 2 data centers, stores shared or not, a newcomer or not; sets of 3 | `TypeOK`, `BestSoFar`, `SelectsBest`, `NoSpreadSetOverlooked`, `NextInOrder`, `Terminates` |
| `distance_function` | up to 6 servers on 3 hosts, both visiting orders | `ComputesDistance` |
| `config_and_routers` | 3 config servers of which 2 are required, 2 routers, both address orders; `script`, `lostExit`, `vmRemoved` | `RoutersAgree`, `ConfigServerQuota` |
| `faults` | 4 data servers in 2 racks, two of them with one store, sets of 2 on two racks, no timeout, both address orders; every fault but `vmRemoved`, `restart` | `OneSetPerServer`, `NamesAgree`, `SetsWellPlaced`, `DeploymentOrder`, `RunningUnderSetName`, `RegisteredSetsAreShards`, `ClusterSpec`, `PassTerminates` |
| `restarts` | the same data servers, 2 config servers of which 1 is required, 2 routers; `restart` | `TypeOK`, `ClusterSpec` |
| `progress` | 4 data servers, two to a host, on one rack, a negative minimum of racks, a rack wait, a machine of unknown type; `script`, `network`, `lostReply` | `SetsWellPlaced`, `JoinsCluster`, `NoServersLeftOver`, `LifecycleFairSpec` |

What the runs show, in the order of the hazards:

* the selection walk is a faithful search: it visits each choice once, ends, and
  never refuses while an acceptable set exists, with the default of two racks;
* all routers that run have the list of exactly the config servers in service,
  although lists are read in different passes with launches failing in between;
* every pass ends, through all its loops, whatever its scripts and commands
  return;
* replica sets stay disjoint, named and well placed over many passes. `faults`
  has groups that are refused for their racks or a shared store for ever,
  `progress` groups that are accepted once all members have waited;
* after restarts MongoDB still holds only what `ShardedCluster` allows
  (`restarts`). A second process gets going with the spare config server and
  the spare router. It groups the data servers anew, in the order in which it
  discovers them, hands out the names again from `rs1`, and registers its sets
  in a cluster of its own, which may have a shard of the same name as the first.
  What keeps a new group with an old member from being launched, initiated and
  registered is only that the old daemon holds its port: if the script took over
  a port, as the mutant of `LaunchDataserver` does, `ClusterSpec` fails;
* a flag `launched` that is stale because the daemon crashed leads to failed
  commands, never to a wrong shard (`RegistrationSound`, section 4, says the same
  of a daemon whose machine went away);
* the wait for racks ends also when no set can ever meet the minimum: a negative
  `minracks` is read into an unsigned integer and becomes a number no set
  reaches.

**Bounds.** Two replica sets are enough for every interaction between sets in
this code (which set is next, one set's exception holding up another, name and
member overlap), two members for a launch that fails half-way, two routers for
"the first launched router", one config server to spare for the quota. The
algorithms are checked with the default replication factor 3 and as many
servers as give several sets to choose from: 5 servers have 10 candidates.
`restarts` has a spare config server and a spare router, without which no process
after the first deploys anything (`restart_blocks`). The topology of `faults` and
`restarts` leaves three groups in a chain, 21-22, 22-23 and 23-24, so a later
process can form the same sets, one that overlaps them, or one beside them; and
in `faults`, with two sets of two members, the loops of grouping, over sets and
over members all go round and are left in the middle. Machines are removed in
`config_and_routers`, and in the violation runs together with data servers. In
`faults` they are not: to the process, which is told nothing, a machine that goes
away is one whose daemon stops and whose scripts fail from then on, and that run
has both; the theorems of section 4 cover removal as such. Crashes and restarts are in different runs, for the reason given below.
`SetAddresses` bounds the number of sets to what the servers can form, so it
disables nothing. Deadlock checking is off only for the two algorithms, which
end.

**Fairness.** Safety properties assume none, `PassTerminates` only that the thread
goes on, which includes that each script or command returns, with any outcome.
`FairSpec` assumes: weak fairness of the thread, of the polling that starts the
next pass, of the clock and of puppet; strong fairness of discovery (every poll
reports every machine, but not in the middle of a pass); and that what is
retried over and over works some day: a script that can succeed, a command that
can be answered. The last is an assumption about the outside; the code justifies
its form, because every pass retries whatever is not done.

**Where code and documentation part.** `README.md:4` of the repository
promises: "Whenever new machines are deployed through Nebu, the MongoDB extension
will deploy MongoDB on those machines and add them to the cluster." Six runs show
behaviours in which they are not, each under fairness or, for the last, as a
safety violation:

* `refused_initiate`: `initiateReplicaSet` ignores the answer to
  `replSetInitiate`; once refused, the set counts as launched and is never
  initiated.
* `router_removed`: registration always uses the first router that was ever
  launched, also when its machine is gone and another router runs.
* `lost_exit`: a daemon that started although its script reported failure
  cannot be launched again, for its port is taken, and never counts as launched.
* `blocked_by_first_set`: an exception leaves the loop over the replica sets, so
  a set that cannot be reached keeps all sets after it from being registered.
* `restart_blocks`: after a restart the config servers that run cannot be
  launched again, so they never count as active and nothing else is deployed.
  Restarts are to be expected, since `README.md:13` says that nebu-mongo "does
  not currently daemonize, so it is recommended to run it using e.g. screen".
  The property is conditional on restarts coming to an end; without the fault
  it holds.
* `two_clusters`: after a restart with a spare config server, another list of
  config servers is completed and the next router starts a second cluster. It
  takes a config server more than required; the table at `README.md:18` has
  exactly 3, the default requirement, and once those were launched a restarted
  process gets stuck as in `restart_blocks` instead.

**Limits that no document contradicts.**

* With crashes and restarts together, `ClusterSpec` and
  `RegisteredSetsAreShards` do not hold. When a server of the old `rs1` stops and
  the new process puts it into another group that it again calls `rs1`, the
  server finds the old configuration in its directory; `replSetInitiate` is
  refused, which is ignored, and `addShard rs1/<server>` registers the old set
  while the new one is marked. Under another name the server gets an empty
  directory and becomes a member of a second replica set. The code has no
  defence against either; with only one of the two faults the ports or the
  memory prevent it.
* With three racks required (`MinRacks` = 3) the ranking of the distance's
  fields can hide an acceptable set behind a refused one, since rack load is
  ranked above the number of racks (six servers spread 4-1-1 over three racks).

## 4. What is proved

TLAPS proves the theorems below for every value of the constants that satisfies
the named assumptions: `VMAssumption`, `MachinesAssumption`,
`PlacementAssumption`, `NebuMongoAssumption` for the process,
`ProblemsAssumption` and `InputsAssumption` for the algorithms. These say that
required numbers are positive, that there are finitely many objects at distinct
addresses, and what `daemonVector` and the candidate set are made from. Further
hypotheses are part of the theorems that need them.

**The process** (`NebuMongoProofs`, `NebuMongoSafety`), with any faults and any
number of restarts:

* `TypeCorrect`: every variable keeps its type and only discovered servers are
  in replica sets. `TypeOK` alone is not inductive: `LaunchReplicaSet` puts the
  members of a set into `todo`, whose type asks for discovered daemons, hence
  `MembersDiscovered`.
* `ServersInOneSet`, `ServersNamedAsSet`, `PlacementKept` (`OneSetPerServer`,
  `NamesAgree`, `SetsWellPlaced`), from their conjunction `ReplicaSetsSound`. A
  set is formed from servers without a name. That these are in no set is
  `NamesAgree`; that the new number is no other set's name is `NamesInUse`, the
  strengthening that makes it inductive. `SetsWellPlaced` says in its own words
  what a set must be like; `AcceptedIsWellPlaced` shows that the policy of the
  code accepts nothing else, and it is kept because hosts and racks are fixed and
  ages only grow. All of this rests on one lemma,
  `SetSteps`: a step restarts the process, forms a replica set, or leaves names
  and members alone.
* `QuotaKept` and `OrderKept` (`ConfigServerQuota`, `DeploymentOrder`), from
  `DeploymentStaged`. The strengthening is `PhaseInv`, what a pass has
  established in each phase and what its loops have left: a member loop that has
  nothing left means that every member is launched; a config server that is
  launched was not counted before.

**The process and the machines** (`NebuMongoMachines`). The process never asks a
machine what runs there; both theorems say that it need not, as long as it is
not restarted. The properties themselves begin with `NoRestart`.

* `NamesRun` (`RunningUnderSetName`): a server is launched only as a member of
  a set, under its name by then, and names are never changed. It is inductive
  together with the invariants of the process.
* `RoutersInOneCluster` (`RoutersAgree`). The strengthening `RoutersListServers`
  says the same of each router alone, that its list is the launched config
  servers in address order, and that a router runs only when all that are
  required are launched. It then follows from `ConfigServerQuota` that the set
  cannot change any more.

**What is left in MongoDB** (`NebuMongoCluster`), with any faults and any number
of restarts, provided that `crash` and `restart` do not both occur
(`NotBothCrashAndRestart`; section 3 says what happens when they do):

* `ImplementsShardedCluster` (`ClusterSpec`): under the mapping `Cluster`,
  initial states map to initial states, and every step to a step of
  `ShardedCluster` or a stutter.
* `RegistrationSound` (`RegisteredSetsAreShards`).

Both need `ClusterInv`. Where daemons do not crash, the members of every set
that was initiated run until their machines are removed (`MembersStay`), so no
later process can launch them again. A server this process launched is
therefore only in the set this process put it in (`OwnSetsOnly`). Where the
process is not restarted, every set is its own. Either way, the set of the name
that `addShard` finds on a member is the set meant. `RegisteredThroughRouter`
is `RegisteredSetsAreShards` with a router that was launched and hence keeps
its list; `SetsNumbered` and `ConfigdbListed` give the types of the abstract
state.

**The replica sets of one process** (`NebuMongoLifecycle`).
`ImplementsShardLifecycle`: without restarts, `NebuMongo` maps to
`ShardLifecycle`, each group going from formed to launched to registered and
never back. A restart forgets the groups, so the hypothesis cannot be spared.
This is the safety part of `LifecycleFairSpec`.

**Selection** (`PlacementProofs`, `ReplicaSelectionProofs`), for any finite
number of servers, any topology, any addresses and any replication factor:

* `WalkTypeCorrect`, `WalksInOrder`, `BestKept` (`TypeOK`, `NextInOrder`,
  `BestSoFar`). The invariant `WalkInv` adds to the last that the distance kept
  is the distance of the selection kept and that the walk stops only at an index
  vector without a successor. `NextVector` is the core: the next index vector
  is the immediate lexicographic successor, because the position that moves is
  the last that can and all after it are packed behind it.
* `WalkSelectsBest` (`SelectsBest`): the loop implements `IsSelected`. The
  index vectors are matched with the candidate sets (`ChosenIsCandidate`,
  `CandidateIsChosen`) and their order with the order of addresses (`WalkOrder`).
* `ExactlyOneSelected`: whenever there are enough servers, exactly one set
  satisfies `IsSelected`. Distances are totally ordered, `EnumeratedBefore` is a
  strict total order of sets, so the candidate that beats most others beats all.
* `SpreadFound` (`NoSpreadSetOverlooked`), from `SpreadNotOverlooked`: the first
  field of the distance makes the best set satisfy hosts and stores if any set
  does. If it were refused for its racks while another is acceptable, it would keep
  to one rack. One of its members could then be exchanged for a server from
  another rack without two on one host or store, and without losing relief, and
  the result would have the greater distance. Two hypotheses: a rack is in one
  data center (`RacksNest`, which is what a rack is, though the framework does
  not enforce it), and `MinRacks` is at most 2, the default. For 3 the claim is
  false (section 3). `MCReplicaSelection` has TLC evaluate both for its run.

**Distance** (`DistanceFunctionProofs`), for any servers, locations and addresses:

* `DistanceComputed` (`ComputesDistance`), from `CountInv`: the pairs counted and
  those among the members left make up all pairs (`PairsSoFar`); the relief taken
  is that of the members visited (`ReliefSoFar`); and a location has lost exactly
  `LoadLimit` for each member visited there as long as its load allowed it, and
  is below `LoadLimit` otherwise (`LoadLeft`). No load is ever drawn below zero.

Induction over data is beyond the prover, since its induction theorems take an
operator as a parameter. Where such an argument is needed, the proofs take the
least element of a set of numbers instead, and that every set of numbers has one
follows from the lemmas on ranks in `PlacementProofs` (`LeastNumber`).

**Only model-checked**: liveness, since liveness under fairness and `ENABLED`
are beyond the prover: `PassTerminates`, `Terminates`, `JoinsCluster`,
`NoServersLeftOver` and the fairness part of `LifecycleFairSpec`. No module here
declares a RECURSIVE operator.

## 5. Not modelled

* Wording of logs, the syntax of commands and host:port strings.
* Parsing of configuration values: a text that is no number leaves `minRacks`
  unset before C++11. A replication factor of 0 (division by zero in
  `daemonDeployer.cpp:292`, an endless loop at 499) and 0 required config servers
  (`mongosDaemon.cpp:62` erases from an empty string) are excluded by
  assumptions on the constants. The options `app.policy`, `mindatacenters` and
  `timeoutdatacenters` are registered and never read.
* Scripts and commands that hang. Neither has a timeout; one that does not return
  stops the only thread, about which there is nothing more to check
  (`PassTerminates` does not cover it).
* The framework's own threads and its REST client, which are not in the
  repository; a machine is reported until it is removed, and a new machine under
  an old hostname is not told from a new machine.
* `main.cpp.OLD` (not compiled), the build files, and tests:
  `test/Makefile.am` lists none.
* `testlibs`: copies of Google's gtest and gmock, 43,000 of the repository's
  45,000 lines. nebu-mongo neither links nor includes them, and no behaviour of
  the deployment depends on them. Lines of the whole repository are therefore a
  poor measure of what is modelled here; of the roughly 1,700 lines of
  nebu-mongo itself that are compiled, `PROJECT.json` maps about 750, the others
  being includes, accessors, logging, option declarations and the text of
  commands.

## 6. Plan

1. Done: the modules and runs above; crashes of daemons, data directories, the
   cluster over several processes; the theorems of section 4, which cover every
   safety invariant and action property that a passing run checks, and both
   refinements but for fairness; a run in which restarted processes deploy
   next to earlier ones.
2. Prove: that a replica set's flags and members of one process never change back
   also as an action property across any step but `Restart`; a bound for the
   walk (each step decreases a number), the safety part of `Terminates`.
3. Model: an abstract specification of a single pass (what one call of
   `deployDaemons` may change); `MinRacks` = 3 with six servers as a checked
   counterexample to a stronger claim.
