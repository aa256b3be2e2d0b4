----------------------------- MODULE MCNebuMongo -----------------------------
(***************************************************************************)
(* Small deployments of nebu-mongo. The machines are numbers; a machine's  *)
(* number is also the address of its daemon, and the data servers are on   *)
(* hosts of their own unless the topology says otherwise.                  *)
(***************************************************************************)
EXTENDS NebuMongo

CONSTANTS Config, Router, Data, Other  \* the machines of each type

MCVM == Config \cup Router \cup Data \cup Other

MCConfigPrefix == <<"mongo", "config">>
MCRouterPrefix == <<"mongo", "router">>
MCDataPrefix   == <<"mongo", "data">>

MCHostname == [vm \in MCVM |->
  (IF vm \in Config THEN MCConfigPrefix
   ELSE IF vm \in Router THEN MCRouterPrefix
   ELSE IF vm \in Data THEN MCDataPrefix ELSE <<"mongo">>) \o <<"host">>]

Ascending       == {[vm \in MCVM |-> vm]}
AscendingOrNot  == Ascending \cup {[vm \in MCVM |-> 100 - vm]}

WaitForever   == -1
NegativeRacks == -1

OwnHosts(rack) ==
  [host |-> [d \in Data |-> d], store |-> [d \in Data |-> d],
   rack |-> rack, dataCenter |-> [d \in Data |-> 1]]

OneRack  == OwnHosts([d \in Data |-> 1])
TwoRacks == OwnHosts([d \in Data |-> d % 2])

\* Two data servers to a host.
TwoHosts == [OneRack EXCEPT !.host = [d \in Data |-> IF d <= 22 THEN 21 ELSE 23]]

\* The last data server has the store of the first: with two racks required, the
\* groups that may form a set are 21-22, 22-23 and 23-24.
Chain == [TwoRacks EXCEPT !.store = [d \in Data |-> IF d = 24 THEN 21 ELSE d]]
==============================================================================
