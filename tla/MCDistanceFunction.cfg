\* Load limits of one (three servers) and two (four to six).
CONSTANTS
  ReplicationFactor = 3
  MinRacks = 2
  RackWaitTimeout = 0
  Sizes = {3, 4, 6}
  Inputs <- MCInputs
SPECIFICATION Spec
INVARIANTS
  ComputesDistance
CHECK_DEADLOCK FALSE
