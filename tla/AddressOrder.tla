---------------------------- MODULE AddressOrder ----------------------------
(***************************************************************************)
(* Iteration over a std::set of shared pointers visits the objects by      *)
(* increasing address. addr maps the objects to their addresses, which are *)
(* arbitrary and distinct.                                                 *)
(***************************************************************************)
EXTENDS Naturals, FiniteSets

\* How many objects of S are visited before d.
Rank(addr, S, d) == Cardinality({e \in S : addr[e] < addr[d]})

\* *S.begin()
IsFirst(addr, S, d) == d \in S /\ \A e \in S : addr[d] <= addr[e]

\* The objects of S in the order in which they are visited.
InOrder(addr, S) ==
  [i \in 1..Cardinality(S) |-> CHOOSE d \in S : Rank(addr, S, d) = i - 1]
==============================================================================
