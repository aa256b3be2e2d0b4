---------------------------- MODULE ShardLifecycle ----------------------------
(***************************************************************************)
(* What nebu-mongo promises about data servers: they are put into groups   *)
(* that are fit to be a replica set, a server into one group at most and   *)
(* for good, and every group goes from formed to launched to registered,   *)
(* one group and one stage at a time.                                      *)
(***************************************************************************)
CONSTANT Groups  \* the sets of servers that are fit to be a replica set

VARIABLES formed, launched, registered

lifecycleVars == <<formed, launched, registered>>

Init ==
  /\ formed = {}
  /\ launched = {}
  /\ registered = {}

Form(g) ==
  /\ \A h \in formed : g \cap h = {}
  /\ formed' = formed \cup {g}
  /\ UNCHANGED <<launched, registered>>

Launch(g) ==
  /\ g \in formed \ launched
  /\ launched' = launched \cup {g}
  /\ UNCHANGED <<formed, registered>>

Register(g) ==
  /\ g \in launched \ registered
  /\ registered' = registered \cup {g}
  /\ UNCHANGED <<formed, launched>>

Next == \E g \in Groups : Form(g) \/ Launch(g) \/ Register(g)

Spec == Init /\ [][Next]_lifecycleVars

\* No group that was formed stays behind. That it gets registered is not
\* promised: the answer that says so may be lost for good.
FairSpec == Spec /\ \A g \in Groups : WF_lifecycleVars(Launch(g))
==============================================================================
