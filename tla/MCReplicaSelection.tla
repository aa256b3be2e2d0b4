------------------------ MODULE MCReplicaSelection --------------------------
(***************************************************************************)
(* selectReplicaSet on every placement of a few data servers on four hosts *)
(* in three racks and two data centers, in address order 1, 2, ...         *)
(***************************************************************************)
EXTENDS ReplicaSelection

CONSTANT Sizes  \* how many unplaced servers there may be

Hosts == 1..4

\* Each host has a store of its own, or hosts 1 and 3 share one.
Store(h, shared) == IF shared /\ h = 3 THEN 1 ELSE h

\* Hosts 1 and 2 share a rack, hosts 1 to 3 a data center.
TopologyOf(host, shared) ==
  [host       |-> host,
   store      |-> [d \in DOMAIN host |-> Store(host[d], shared)],
   rack       |-> [h \in Hosts |-> IF h <= 2 THEN 1 ELSE h - 1],
   dataCenter |-> [h \in Hosts |-> IF h <= 3 THEN 1 ELSE 2]]

\* The last server in address order may be a newcomer.
MCProblems ==
  UNION {{[daemons  |-> 1..n,
           addr     |-> [d \in 1..n |-> d],
           topology |-> TopologyOf(host, shared),
           age      |-> [d \in 1..n |-> IF d = n /\ newcomer THEN 0 ELSE 1]] :
            host \in [1..n -> Hosts], shared \in BOOLEAN, newcomer \in BOOLEAN} :
         n \in Sizes}

\* The hypotheses of the theorem about NoSpreadSetOverlooked.
ASSUME RacksNestAssumption == RacksNest /\ MinRacks <= 2
==============================================================================
