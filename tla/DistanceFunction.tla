-------------------------- MODULE DistanceFunction --------------------------
(***************************************************************************)
(* DaemonDeployer::distanceFunction as the code computes it: a loop over   *)
(* the pairs of the candidate set, then the load of every rack, data       *)
(* center, host and store, then a loop over the candidate set that draws   *)
(* the loads down. It implements the order-free definition of Placement.   *)
(***************************************************************************)
EXTENDS Placement, AddressOrder

CONSTANT Inputs  \* a topology, the unplaced daemons, a candidate set, addresses

\* selectReplicaSet builds the candidate set from daemonVector.
Measurable(i) ==
  /\ IsFiniteSet(i.daemons)
  /\ i.candidate \subseteq i.daemons
  /\ \A d \in i.daemons : i.addr[d] \in Nat

ASSUME InputsAssumption == \A i \in Inputs : Measurable(i)

VARIABLES
  input,
  todo,      \* the members of the candidate set the current loop has yet to visit
  load,      \* how many unplaced servers share a location, less the relief taken
  distance,  \* the fields of struct Distance, most significant first
  pc         \* "pairs", "loads", "relief" or "done"

vars == <<input, todo, load, distance, pc>>

Kinds == {"rack", "dataCenter", "host", "store"}

Location(kind) ==
  CASE kind = "rack"       -> RackOf(input.topology)
    [] kind = "dataCenter" -> DataCenterOf(input.topology)
    [] kind = "host"       -> input.topology.host
    [] kind = "store"      -> input.topology.store

Differ(kind, a, b) == Location(kind)[a] # Location(kind)[b]

NextVisited == CHOOSE d \in todo : IsFirst(input.addr, todo, d)

Init ==
  /\ input \in Inputs
  /\ todo = input.candidate
  /\ load = [kind \in Kinds |-> <<>>]
  /\ distance = <<0, 0, 0, 0, 0, 0>>
  /\ pc = "pairs"

\* One daemonA against every daemonB after it.
CountPairs ==
  /\ pc = "pairs" /\ todo # {}
  /\ LET daemonA == NextVisited
         Elsewhere(kind) == {daemonB \in todo \ {daemonA} : Differ(kind, daemonA, daemonB)}
     IN  /\ distance' =
              [distance EXCEPT
                 ![1] = @ + Cardinality(Elsewhere("host") \cap Elsewhere("store")),
                 ![4] = @ + Cardinality(Elsewhere("rack")),
                 ![5] = @ + Cardinality(Elsewhere("dataCenter"))]
         /\ todo' = todo \ {daemonA}
  /\ UNCHANGED <<input, load, pc>>

CountLoads ==
  /\ pc = "pairs" /\ todo = {}
  /\ load' = [kind \in Kinds |->
                LET location == Location(kind)
                IN  [l \in {location[d] : d \in input.daemons} |->
                       Cardinality({d \in input.daemons : location[d] = l})]]
  /\ todo' = input.candidate
  /\ pc' = "relief"
  /\ UNCHANGED <<input, distance>>

\* Mutant of Relieved: any load is enough, so that it may be drawn below zero.
RelievedAtAnyLoad(d) == {kind \in Kinds : load[kind][Location(kind)[d]] > 0}

Relieved(d) ==
  {kind \in Kinds : load[kind][Location(kind)[d]] >= LoadLimit(input.daemons)}

DrawnDown(d) ==
  [kind \in Kinds |->
     IF kind \in Relieved(d)
     THEN [load[kind] EXCEPT ![Location(kind)[d]] = @ - LoadLimit(input.daemons)]
     ELSE load[kind]]

Relieve ==
  /\ pc = "relief" /\ todo # {}
  /\ LET d == NextVisited
         One(kind) == IF kind \in Relieved(d) THEN 1 ELSE 0
     IN  /\ load' = DrawnDown(d)
         /\ distance' = [distance EXCEPT ![2] = @ + One("rack"),
                                         ![3] = @ + One("dataCenter"),
                                         ![6] = @ + One("host") + One("store")]
         /\ todo' = todo \ {d}
  /\ UNCHANGED <<input, pc>>

Return ==
  /\ pc = "relief" /\ todo = {}
  /\ pc' = "done"
  /\ UNCHANGED <<input, todo, load, distance>>

Next == CountPairs \/ CountLoads \/ Relieve \/ Return

Spec == Init /\ [][Next]_vars

------------------------------------------------------------------------------
\* The result is the one Placement defines by counting: whatever the order the
\* daemons' addresses give the loops, the same candidate has the same distance.
ComputesDistance ==
  pc = "done" => distance = distanceFunction(input.topology, input.daemons, input.candidate)
==============================================================================
