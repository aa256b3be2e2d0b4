------------------------------ MODULE Machines ------------------------------
(***************************************************************************)
(* What nebu-mongo acts upon, and what survives it: the virtual machines,  *)
(* the processes the launch scripts start on them over ssh, and what       *)
(* MongoDB remembers of the commands it was sent. The parts of this that   *)
(* are not in the repository (puppet, ssh, mongod, mongos) are modelled    *)
(* from the way the scripts and the daemons use them.                      *)
(***************************************************************************)
EXTENDS HostTypes

CONSTANTS
  InitiallyReady,  \* machines that are ready when nebu-mongo starts
  Faults           \* what may go wrong in a run

AllFaults ==
  {"script",     \* a launch script fails although the machine is ready
   "lostExit",   \* the daemon starts but the script's ssh reports a failure
   "network",    \* connecting to a running daemon fails
   "lostReply",  \* a command takes effect but its reply is lost
   "refused",    \* MongoDB answers a command it could carry out with an error
   "vmRemoved",  \* Nebu removes a machine
   "crash",      \* a mongod or mongos stops; its machine and its files stay
   "restart"}    \* nebu-mongo stops and is started again

ASSUME MachinesAssumption == InitiallyReady \subseteq VM /\ Faults \subseteq AllFaults

VARIABLES
  ready,         \* machines on which .puppetcomplete exists
  removed,       \* machines that are gone
  running,       \* machines on which mongod or mongos runs
  runsReplSet,   \* data server -> the number in its --replSet argument
  runsConfigdb,  \* query router -> its --configdb argument
  initiated,     \* replica sets, see ReplicaSets
  shards         \* pairs <<cluster, replica set>>; a cluster is its --configdb

machineVars ==
  <<ready, removed, running, runsReplSet, runsConfigdb, initiated, shards>>

Clusters == Seq(ConfigServers)

\* MongoDB's replica sets: <<name, members>>. A member keeps the configuration
\* in its --dbpath, /data/mongo/mongod-<name>, a directory for every name.
ReplicaSets == Nat \X SUBSET DataServers

MachinesTypeOK ==
  /\ ready \subseteq VM
  /\ removed \subseteq VM
  /\ running \subseteq VM
  /\ runsReplSet \in [DataServers -> Nat]
  /\ runsConfigdb \in [QueryRouters -> Clusters]
  /\ initiated \subseteq ReplicaSets
  /\ shards \subseteq Clusters \X initiated

MachinesInit ==
  /\ ready = InitiallyReady
  /\ removed = {}
  /\ running = {}
  /\ runsReplSet = [d \in DataServers |-> 0]
  /\ runsConfigdb = [r \in QueryRouters |-> <<>>]
  /\ initiated = {}
  /\ shards = {}

\* Puppet completes on vm.
Provision(vm) ==
  /\ vm \notin ready \cup removed
  /\ ready' = ready \cup {vm}
  /\ UNCHANGED <<removed, running, runsReplSet, runsConfigdb, initiated, shards>>

VMRemoved(vm) ==
  /\ "vmRemoved" \in Faults
  /\ vm \in ready
  /\ ready' = ready \ {vm}
  /\ removed' = removed \cup {vm}
  /\ running' = running \ {vm}
  /\ UNCHANGED <<runsReplSet, runsConfigdb, initiated, shards>>

DaemonCrash(vm) ==
  /\ "crash" \in Faults
  /\ vm \in running
  /\ running' = running \ {vm}
  /\ UNCHANGED <<ready, removed, runsReplSet, runsConfigdb, initiated, shards>>

------------------------------------------------------------------------------
(* The launch scripts. *)

\* A second mongod or mongos cannot bind the port of one that runs.
CanStart(vm) == vm \in ready \ running

\* The script exits with 0 iff success. It may have started the daemon and
\* fail all the same, when the connection breaks after the daemon forked.
RunScript(vm, success) ==
  \/ /\ CanStart(vm)
     /\ success \/ "lostExit" \in Faults
     /\ running' = running \cup {vm}
  \/ /\ ~ success
     /\ ~ CanStart(vm) \/ "script" \in Faults
     /\ UNCHANGED running

LaunchConfigsvr(vm, success) ==
  /\ RunScript(vm, success)
  /\ UNCHANGED <<ready, removed, runsReplSet, runsConfigdb, initiated, shards>>

LaunchRouter(vm, configdb, success) ==
  /\ RunScript(vm, success)
  /\ runsConfigdb' =
       IF vm \in running' \ running THEN [runsConfigdb EXCEPT ![vm] = configdb] ELSE runsConfigdb
  /\ UNCHANGED <<ready, removed, runsReplSet, initiated, shards>>

\* Mutant of LaunchDataserver: the script stops a mongod that runs already.
LaunchDataserverAfresh(vm, replSet, success) ==
  /\ vm \in ready /\ success
  /\ running' = running \cup {vm}
  /\ runsReplSet' = [runsReplSet EXCEPT ![vm] = replSet]
  /\ UNCHANGED <<ready, removed, runsConfigdb, initiated, shards>>

LaunchDataserver(vm, replSet, success) ==
  /\ RunScript(vm, success)
  /\ runsReplSet' =
       IF vm \in running' \ running THEN [runsReplSet EXCEPT ![vm] = replSet] ELSE runsReplSet
  /\ UNCHANGED <<ready, removed, runsConfigdb, initiated, shards>>

------------------------------------------------------------------------------
(* The commands. The reply is "ok", "error", or "throws": executeCommand   *)
(* throws when it cannot connect or loses the connection.                  *)

Replies == {"ok", "error", "throws"}

\* Whether a command sent to vm may have the given reply without taking effect.
MayFail(vm, canSucceed, reply) ==
  \/ reply = "error"  /\ vm \in running /\ (~ canSucceed \/ "refused" \in Faults)
  \/ reply = "throws" /\ (vm \notin running \/ "network" \in Faults)

\* Whether it may have that reply when it did take effect.
MaySucceed(vm, canSucceed, reply) ==
  /\ vm \in running
  /\ canSucceed
  /\ reply = "ok" \/ (reply = "throws" /\ "lostReply" \in Faults)

RunsUnder(d, name) == d \in running /\ runsReplSet[d] = name

\* Every member runs under the name and has no configuration for it yet.
CanInitiate(name, members) ==
  /\ \A d \in members : RunsUnder(d, name)
  /\ \A s \in initiated : s[1] = name => s[2] \cap members = {}

\* replSetInitiate sent to d.
ReplSetInitiate(d, name, members, reply) ==
  /\ \/ /\ MaySucceed(d, CanInitiate(name, members), reply)
        /\ initiated' = initiated \cup {<<name, members>>}
     \/ /\ MayFail(d, CanInitiate(name, members), reply)
        /\ UNCHANGED initiated
  /\ UNCHANGED <<ready, removed, running, runsReplSet, runsConfigdb, shards>>

\* The cluster's config servers are up, d runs as a member of s, of which more
\* than half runs (there is a primary), and no other shard has the name of s.
CanAddShard(cluster, d, s) ==
  /\ \A i \in DOMAIN cluster : cluster[i] \in running
  /\ d \in s[2] /\ RunsUnder(d, s[1])
  /\ 2 * Cardinality({e \in s[2] : RunsUnder(e, s[1])}) > Cardinality(s[2])
  /\ \A t \in initiated : <<cluster, t>> \in shards /\ t[1] = s[1] => t = s

\* addShard "name/d" sent to router. MongoDB looks up the other members. A
\* shard that was added before may be accepted again or refused.
AddShard(router, name, d, reply) ==
  LET cluster == runsConfigdb[router]
      addable == {s \in initiated : s[1] = name /\ CanAddShard(cluster, d, s)}
  IN  /\ \/ \E s \in addable :
              /\ MaySucceed(router, TRUE, reply)
              /\ shards' = shards \cup {<<cluster, s>>}
         \/ /\ MayFail(router, \E s \in addable : <<cluster, s>> \notin shards, reply)
            /\ UNCHANGED shards
      /\ UNCHANGED <<ready, removed, running, runsReplSet, runsConfigdb, initiated>>
==============================================================================
