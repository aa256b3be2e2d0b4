\* The defaults: sets of three that span two racks. Four and five candidates.
CONSTANTS
  ReplicationFactor = 3
  MinRacks = 2
  RackWaitTimeout = 0
  Sizes = {3, 4, 5}
  Problems <- MCProblems
SPECIFICATION Spec
INVARIANTS
  TypeOK
  BestSoFar
  SelectsBest
  NoSpreadSetOverlooked
PROPERTIES
  NextInOrder
  Terminates
CHECK_DEADLOCK FALSE
