-------------------------- MODULE ReplicaSelection --------------------------
(***************************************************************************)
(* DaemonDeployer::selectReplicaSet: walk over every choice of             *)
(* ReplicationFactor data servers, in lexicographic order of their indices *)
(* in daemonVector, keep the best, and return it if the policy accepts it. *)
(* A step is the evaluation of a selection or the move to the next one.    *)
(***************************************************************************)
EXTENDS Placement, AddressOrder

CONSTANT Problems  \* the inputs: unplaced servers, where and how old they are

\* deployDataServers calls selectReplicaSet only with enough servers.
Selectable(p) ==
  /\ IsFiniteSet(p.daemons)
  /\ Cardinality(p.daemons) >= ReplicationFactor
  /\ p.addr \in [p.daemons -> Nat]
  /\ \A d, e \in p.daemons : d # e => p.addr[d] # p.addr[e]

ASSUME ProblemsAssumption == \A p \in Problems : Selectable(p)

\* A rack is in one data center. The TopologyManager does not promise it.
RacksNest ==
  \A p \in Problems :
    LET rack       == RackOf(p.topology)
        dataCenter == DataCenterOf(p.topology)
    IN  /\ p.daemons \subseteq DOMAIN p.topology.host
        /\ \A d, e \in p.daemons : rack[d] = rack[e] => dataCenter[d] = dataCenter[e]

VARIABLES
  problem,
  daemonVector,      \* the unplaced servers by increasing address
  currentSelection,
  bestSelection,     \* empty before the first evaluation
  bestDistance,
  pc                 \* "evaluate", "advance", "accepted" or "rejected"

vars == <<problem, daemonVector, currentSelection, bestSelection, bestDistance, pc>>

Positions == 0 .. (ReplicationFactor - 1)
MaxIndex  == Cardinality(problem.daemons) - 1

\* The index vectors nextIndexVector keeps to: increasing, with room between
\* any two positions for the ones in between.
IndexVectors ==
  {v \in [Positions -> 0..MaxIndex] :
     \A i, j \in Positions : i < j => v[i] + (j - i) <= v[j]}

FirstIndexVector == [i \in Positions |-> i]

\* Mutant of CanMove: one too far.
CanMoveTooFar(v, i) == v[i] + (ReplicationFactor - 1 - i) <= MaxIndex

\* Position i can move up and leave room for the positions after it.
CanMove(v, i) == v[i] + 1 + (ReplicationFactor - 1 - i) <= MaxIndex

\* Mutants of Moved: the later positions stay; position i stays.
MovedAlone(v, i)  == [j \in Positions |-> IF j = i THEN v[i] + 1 ELSE v[j]]
MovedInPlace(v, i) == [j \in Positions |-> IF j < i THEN v[j] ELSE v[i] + (j - i)]

\* Position i moves up by one, the ones after it follow it closely.
Moved(v, i) == [j \in Positions |-> IF j < i THEN v[j] ELSE v[i] + 1 + (j - i)]

\* nextIndexVector: w comes from v by moving the last position that can move.
IsNextIndexVector(v, w) ==
  \E i \in Positions :
    /\ CanMove(v, i)
    /\ \A j \in Positions : j > i => ~ CanMove(v, j)
    /\ w = Moved(v, i)

HasNextIndexVector(v) == \E i \in Positions : CanMove(v, i)

Chosen(v) == {daemonVector[v[i]] : i \in Positions}

DistanceOf(v) == distanceFunction(problem.topology, problem.daemons, Chosen(v))

NoDistance == <<0, 0, 0, 0, 0, 0>>

------------------------------------------------------------------------------
Init ==
  /\ problem \in Problems
  /\ daemonVector = [i \in 0..MaxIndex |-> InOrder(problem.addr, problem.daemons)[i + 1]]
  /\ currentSelection = FirstIndexVector
  /\ bestSelection = <<>>
  /\ bestDistance = NoDistance
  /\ pc = "evaluate"

\* Mutant of IsKept: a draw goes to the earlier selection.
IsKeptIfBetter(v) == bestSelection = <<>> \/ DistanceLess(bestDistance, DistanceOf(v))

IsKept(v) == DistanceAtLeast(DistanceOf(v), bestDistance)

Evaluate ==
  /\ pc = "evaluate"
  /\ pc' = "advance"
  /\ IF IsKept(currentSelection)
     THEN /\ bestDistance' = DistanceOf(currentSelection)
          /\ bestSelection' = currentSelection
     ELSE UNCHANGED <<bestDistance, bestSelection>>
  /\ UNCHANGED <<problem, daemonVector, currentSelection>>

Advance ==
  /\ pc = "advance"
  /\ IsNextIndexVector(currentSelection, currentSelection')
  /\ pc' = "evaluate"
  /\ UNCHANGED <<problem, daemonVector, bestSelection, bestDistance>>

Return ==
  /\ pc = "advance"
  /\ ~ HasNextIndexVector(currentSelection)
  /\ pc' = IF isAcceptableReplicaSet(problem.topology, problem.age, Chosen(bestSelection))
           THEN "accepted" ELSE "rejected"
  /\ UNCHANGED <<problem, daemonVector, currentSelection, bestSelection, bestDistance>>

Next == Evaluate \/ Advance \/ Return

Spec == Init /\ [][Next]_vars /\ WF_vars(Next)

------------------------------------------------------------------------------
TypeOK ==
  /\ Selectable(problem)
  /\ daemonVector \in [0..MaxIndex -> problem.daemons]
  /\ currentSelection \in IndexVectors
  /\ bestSelection \in IndexVectors \cup {<<>>}
  /\ bestSelection = <<>> <=> (pc = "evaluate" /\ currentSelection = FirstIndexVector)
  /\ bestDistance \in [1..6 -> Nat]
  /\ pc \in {"evaluate", "advance", "accepted", "rejected"}

LexLess(v, w) ==
  \E i \in Positions : v[i] < w[i] /\ \A j \in Positions : j < i => v[j] = w[j]

Evaluated(v) == LexLess(v, currentSelection) \/ (v = currentSelection /\ pc # "evaluate")

\* Whatever was evaluated so far is no better than the selection kept, and
\* strictly worse when it was evaluated later (the walk never passes over a
\* selection, and a draw goes to the later one).
BestSoFar ==
  \A v \in IndexVectors : Evaluated(v) =>
    /\ Evaluated(bestSelection)
    /\ DistanceAtLeast(bestDistance, DistanceOf(v))
    /\ LexLess(bestSelection, v) => DistanceLess(DistanceOf(v), bestDistance)

\* When the walk is over the selection kept is, among ALL sets of
\* ReplicationFactor unplaced servers and not only the index vectors walked,
\* the one with the greatest distance, the last in address order on a draw.
SelectsBest ==
  pc \in {"accepted", "rejected"} =>
    IsSelected(problem.topology, problem.addr, problem.daemons, Chosen(bestSelection))

\* Only the best selection is put to the policy (selectReplicaSet returns, and
\* deployDataServers gives up, when it is refused). It is refused only if no
\* other choice would have satisfied the hosts, stores and racks: the order in
\* which Distance ranks its fields does not hide a well spread set.
NoSpreadSetOverlooked ==
  pc = "rejected" =>
    \A S \in Candidates(problem.daemons) :
      ~ (isAcceptableHostLocality(problem.topology, S) /\ SpansRacks(problem.topology, S))

\* The selection only ever moves to its immediate lexicographic successor.
NextInOrder ==
  [][currentSelection' # currentSelection =>
       /\ LexLess(currentSelection, currentSelection')
       /\ \A v \in IndexVectors :
            ~ (LexLess(currentSelection, v) /\ LexLess(v, currentSelection'))]_vars

\* The walk comes to an end: a set is accepted or refused.
Terminates == <>(pc \in {"accepted", "rejected"})
==============================================================================
