---------------------------- MODULE ShardedCluster ----------------------------
(***************************************************************************)
(* The databases nebu-mongo leaves behind, as their users see them: replica *)
(* sets that were initiated and the shards made of them, whatever becomes  *)
(* of the process that sent the commands. A server belongs to one replica  *)
(* set for good, a replica set has members that are fit to fail            *)
(* independently, a shard is a whole replica set, and a cluster has one    *)
(* shard of a name.                                                        *)
(***************************************************************************)
CONSTANTS
  Groups,    \* the sets of servers that are fit to be a replica set
  Names,     \* the names replica sets may have
  Clusters   \* the clusters, each with config servers of its own

VARIABLES
  replicaSets,  \* pairs <<name, members>>
  shards        \* pairs <<cluster, replica set>>

clusterVars == <<replicaSets, shards>>

Init ==
  /\ replicaSets = {}
  /\ shards = {}

Initiate(name, group) ==
  /\ \A s \in replicaSets : s[2] \cap group = {}
  /\ replicaSets' = replicaSets \cup {<<name, group>>}
  /\ UNCHANGED shards

AddShard(cluster, s) ==
  /\ \A t \in replicaSets : <<cluster, t>> \in shards => t[1] # s[1]
  /\ shards' = shards \cup {<<cluster, s>>}
  /\ UNCHANGED replicaSets

Next ==
  \/ \E name \in Names, group \in Groups : Initiate(name, group)
  \/ \E cluster \in Clusters, s \in replicaSets : AddShard(cluster, s)

Spec == Init /\ [][Next]_clusterVars
==============================================================================
