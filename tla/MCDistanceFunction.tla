------------------------ MODULE MCDistanceFunction --------------------------
(***************************************************************************)
(* distanceFunction on every placement of up to six data servers, the      *)
(* candidate set being the first ReplicationFactor of them, visited in     *)
(* increasing or in decreasing order.                                      *)
(***************************************************************************)
EXTENDS DistanceFunction

CONSTANT Sizes

Hosts == 1..3

MCInputs ==
  UNION {{[topology  |-> [host       |-> host,
                          store      |-> [d \in 1..n |-> IF host[d] = 3 THEN 1 ELSE host[d]],
                          rack       |-> [h \in Hosts |-> IF h = 1 THEN 1 ELSE 2],
                          dataCenter |-> [h \in Hosts |-> IF h = 3 THEN 2 ELSE 1]],
           daemons   |-> 1..n,
           candidate |-> 1..ReplicationFactor,
           addr      |-> [d \in 1..n |-> IF descending THEN n + 1 - d ELSE d]] :
            host \in [1..n -> Hosts], descending \in BOOLEAN} :
         n \in Sizes}
==============================================================================
