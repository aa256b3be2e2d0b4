-------------------------- MODULE NebuMongoLifecycle --------------------------
(***************************************************************************)
(* NebuMongo implements ShardLifecycle: every group of data servers goes   *)
(* from formed to launched to registered, and never back, as long as the   *)
(* process lives.                                                          *)
(***************************************************************************)
EXTENDS NebuMongoMachines

------------------------------------------------------------------------------
(* The abstract variables, and the steps that change them.                  *)

Formed     == Members(LAMBDA o : TRUE)
Started    == Members(LAMBDA o : o.launched)
Registered == Members(LAMBDA o : o.registered)

LEMMA Mapping ==
  /\ Formed     = {replicaSet[a].dataServers : a \in replicaSets}
  /\ Started    = {replicaSet[a].dataServers : a \in {b \in replicaSets : replicaSet[b].launched}}
  /\ Registered = {replicaSet[a].dataServers : a \in {b \in replicaSets : replicaSet[b].registered}}
BY DEF Formed, Started, Registered, Members

LEMMA MappingPrime ==
  /\ Formed'     = {replicaSet'[a].dataServers : a \in replicaSets'}
  /\ Started'    = {replicaSet'[a].dataServers : a \in {b \in replicaSets' : replicaSet'[b].launched}}
  /\ Registered' = {replicaSet'[a].dataServers : a \in {b \in replicaSets' : replicaSet'[b].registered}}
BY DEF Formed, Started, Registered, Members

\* No set is formed and no flag is set.
LEMMA NoLifecycleStep ==
  ASSUME SameSets,
         \A a \in replicaSets : /\ replicaSet'[a].launched = replicaSet[a].launched
                                /\ replicaSet'[a].registered = replicaSet[a].registered
  PROVE  UNCHANGED <<Formed, Started, Registered>>
BY Mapping, MappingPrime DEF SameSets, replicaSets

LEMMA FormImplemented ==
  ASSUME ProcessInv, ProcessInv',
         NEW S \in Candidates(rogueDataServers), NEW a \in SetAddresses, FormReplicaSet(S, a)
  PROVE  Lifecycle!Form(S) /\ S \in FitGroups
<1>1. /\ a \notin replicaSets /\ replicaSets' = replicaSets \cup {a}
      /\ \A b \in replicaSets : replicaSet'[b] = replicaSet[b]
      /\ replicaSet'[a].dataServers = S
      /\ ~ replicaSet'[a].launched /\ ~ replicaSet'[a].registered
  BY FormedSet
<1>2. \A h \in Formed : S \cap h = {}
  <2>1. OneSetPerServer'
    BY DEF ProcessInv, SetInv
  <2> QED
    BY <1>1, <2>1, Mapping DEF OneSetPerServer
<1>3. Formed' = Formed \cup {S} /\ Started' = Started /\ Registered' = Registered
  BY <1>1, Mapping, MappingPrime
<1>4. S \in FitGroups
  <2>1. S \subseteq DataServers /\ Cardinality(S) = ReplicationFactor
    BY CandidateType DEF rogueDataServers
  <2>2. isAcceptableHostLocality(Topology, S)
    BY DEF FormReplicaSet, IsAcceptedSelection, isAcceptableReplicaSet
  <2> QED
    BY <2>1, <2>2 DEF FitGroups, Candidates, kSubset
<1> QED
  BY <1>2, <1>3, <1>4 DEF Lifecycle!Form, Formed, Started, Registered

\* Which flags a step on one set changes, by the sets' members.
LEMMA FlagMapping ==
  ASSUME ProcessInv, SameSets, NEW a \in replicaSets,
         \A b \in replicaSets \ {a} : /\ replicaSet'[b].launched = replicaSet[b].launched
                                      /\ replicaSet'[b].registered = replicaSet[b].registered
  PROVE  /\ Formed' = Formed
         /\ replicaSet[a].dataServers \in Formed
         /\ replicaSet[a].launched <=> replicaSet[a].dataServers \in Started
         /\ replicaSet[a].registered <=> replicaSet[a].dataServers \in Registered
         /\ replicaSet'[a].launched = replicaSet[a].launched => Started' = Started
         /\ replicaSet'[a].launched => Started' = Started \cup {replicaSet[a].dataServers}
         /\ replicaSet'[a].registered = replicaSet[a].registered => Registered' = Registered
         /\ replicaSet'[a].registered => Registered' = Registered \cup {replicaSet[a].dataServers}
<1>1. \A b \in replicaSets : replicaSet[b].dataServers = replicaSet[a].dataServers => b = a
  <2>1. replicaSet[a].dataServers # {}
    BY SetFit
  <2> QED
    BY <2>1 DEF ProcessInv, SetInv, OneSetPerServer
<1> QED
  BY <1>1, Mapping, MappingPrime DEF SameSets, replicaSets

\* An answered replSetInitiate counts as the launch of a set that was not
\* launched; without an answer nothing changes.
LEMMA LaunchImplemented ==
  ASSUME ProcessInv, SameSets,
         NEW a \in SetAddresses, NEW reply \in Replies, InitiateReplicaSet(a, reply)
  PROVE  \/ UNCHANGED <<Formed, Started, Registered>>
         \/ Lifecycle!Launch(replicaSet[a].dataServers)
<1>1. a \in replicaSets /\ replicaSet \in [SetAddresses -> ReplicaSetObjects]
  BY DEF InitiateReplicaSet, IsCurrentSet, ProcessInv, TypeInv, TypeOK
<1>2. CASE replicaSet' = replicaSet
  BY <1>2, NoLifecycleStep
<1>3. CASE replicaSet' = [replicaSet EXCEPT ![a].launched = TRUE]
  <2>1. /\ replicaSet'[a].launched /\ replicaSet'[a].registered = replicaSet[a].registered
        /\ \A b \in replicaSets \ {a} : replicaSet'[b] = replicaSet[b]
    BY <1>1, <1>3 DEF ReplicaSetObjects, replicaSets
  <2>2. ~ replicaSet[a].launched
    <3>1. pc = "members" /\ IsCurrentSet(a)
      BY DEF InitiateReplicaSet
    <3>2. PICK b \in setTodo : IsCurrentSet(b) /\ ~ replicaSet[b].launched
      BY <3>1 DEF ProcessInv, DeployInv, PhaseInv
    <3>3. setTodo \subseteq Nat
      BY NebuMongoAssumption DEF ProcessInv, TypeInv, TypeOK, replicaSets
    <3>4. a = b
      BY <3>1, <3>2, <3>3 DEF IsCurrentSet
    <3> QED
      BY <3>2, <3>4
  <2> QED
    BY <1>1, <2>1, <2>2, FlagMapping DEF Lifecycle!Launch, Formed, Started, Registered
<1> QED
  BY <1>2, <1>3 DEF InitiateReplicaSet

\* An ok to addShard counts as the registration of a set that was launched.
LEMMA RegisterImplemented ==
  ASSUME ProcessInv, SameSets,
         NEW a \in SetAddresses, NEW reply \in Replies, RegisterReplicaSet(a, reply)
  PROVE  \/ UNCHANGED <<Formed, Started, Registered>>
         \/ Lifecycle!Register(replicaSet[a].dataServers)
<1>1. a \in replicaSets /\ replicaSet \in [SetAddresses -> ReplicaSetObjects]
  BY DEF RegisterReplicaSet, IsCurrentSet, ProcessInv, TypeInv, TypeOK
<1>2. CASE replicaSet' = replicaSet
  BY <1>2, NoLifecycleStep
<1>3. CASE replicaSet' = [replicaSet EXCEPT ![a].registered = TRUE]
  <2>1. /\ replicaSet'[a].registered /\ replicaSet'[a].launched = replicaSet[a].launched
        /\ \A b \in replicaSets \ {a} : replicaSet'[b] = replicaSet[b]
    BY <1>1, <1>3 DEF ReplicaSetObjects, replicaSets
  <2>2. replicaSet[a].launched /\ ~ replicaSet[a].registered
    BY DEF RegisterReplicaSet
  <2> QED
    BY <1>1, <2>1, <2>2, FlagMapping DEF Lifecycle!Register, Formed, Started, Registered
<1> QED
  BY <1>2, <1>3 DEF RegisterReplicaSet, MarkRegistered

------------------------------------------------------------------------------
(* The refinement.                                                          *)

LEMMA LifecycleStep ==
  ASSUME NoRestart, ProcessInv, [Next]_vars
  PROVE  [Lifecycle!Next]_(Lifecycle!lifecycleVars)
<1> USE DEF Lifecycle!lifecycleVars, Formed, Started, Registered
<1>1. ASSUME NEW S \in Candidates(rogueDataServers), NEW a \in SetAddresses, FormReplicaSet(S, a)
      PROVE  [Lifecycle!Next]_(Lifecycle!lifecycleVars)
  BY <1>1, ProcessInvStep, FormImplemented DEF Lifecycle!Next
<1>2. CASE SameSets
  <2>1. replicaSet' = replicaSet => UNCHANGED <<Formed, Started, Registered>>
    BY <1>2, NoLifecycleStep
  <2>2. \A a \in replicaSets : replicaSet[a].dataServers \in FitGroups
    BY SetFit
  <2>3. ASSUME NEW a \in SetAddresses, NEW reply \in Replies, InitiateReplicaSet(a, reply)
        PROVE  [Lifecycle!Next]_(Lifecycle!lifecycleVars)
    <3>1. a \in replicaSets
      BY <2>3 DEF InitiateReplicaSet, IsCurrentSet, ProcessInv, TypeInv, TypeOK
    <3> QED
      BY <1>2, <2>2, <2>3, <3>1, LaunchImplemented DEF Lifecycle!Next
  <2>4. ASSUME NEW a \in SetAddresses, NEW reply \in Replies, RegisterReplicaSet(a, reply)
        PROVE  [Lifecycle!Next]_(Lifecycle!lifecycleVars)
    <3>1. a \in replicaSets
      BY <2>4 DEF RegisterReplicaSet, IsCurrentSet, ProcessInv, TypeInv, TypeOK
    <3> QED
      BY <1>2, <2>2, <2>4, <3>1, RegisterImplemented DEF Lifecycle!Next
  <2>5. \/ MachineStep
        \/ \E d \in ConfigServers, success \in BOOLEAN : LaunchConfigServer(d, success)
        \/ \E r \in QueryRouters, success \in BOOLEAN : LaunchQueryRouter(r, success)
        \/ \E d \in DataServers, success \in BOOLEAN : LaunchDataServer(d, success)
        \/ InnerStep
        => replicaSet' = replicaSet
    BY DEF MachineStep, memoryVars, LaunchConfigServer, LaunchQueryRouter, LaunchDataServer, InnerStep
  <2>6. ~ Restart
    BY DEF Restart, NoRestart
  <2> QED
    BY <1>1, <2>1, <2>3, <2>4, <2>5, <2>6, Steps
<1>3. ~ Restart
  BY DEF Restart, NoRestart
<1> QED
  BY <1>1, <1>2, <1>3, SetSteps DEF ProcessInv

\* A process that is not restarted puts a server into one group for good, and
\* takes every group from formed to launched to registered, one at a time and
\* never back, whatever fails around it.
THEOREM ImplementsShardLifecycle ==
  ASSUME NoRestart
  PROVE  Spec => LifecycleSpec
<1>1. Init => Lifecycle!Init
  <2> SUFFICES ASSUME Init PROVE Formed = {} /\ Started = {} /\ Registered = {}
    BY DEF Lifecycle!Init, Formed, Started, Registered
  <2>1. replicaSets = {}
    BY DEF Init, replicaSets
  <2> QED
    BY <2>1, Mapping
<1>2. ProcessInv /\ [Next]_vars => [Lifecycle!Next]_(Lifecycle!lifecycleVars)
  BY LifecycleStep
<1>3. ProcessInv /\ [Next]_vars => ProcessInv'
  BY ProcessInvStep
<1> QED
  BY <1>1, <1>2, <1>3, ProcessInvInit, PTL DEF Spec, LifecycleSpec, Lifecycle!Spec
==============================================================================
