\* Four data servers that form up to two replica sets. Scripts, commands and
\* daemons fail in any combination.
CONSTANTS
  Config = {1}
  Router = {11}
  Data = {21, 22, 23, 24}
  Other = {}
  VM <- MCVM
  Hostname <- MCHostname
  ConfigPrefix <- MCConfigPrefix
  RouterPrefix <- MCRouterPrefix
  DataPrefix <- MCDataPrefix
  InitiallyReady = {1, 11, 21, 22, 23, 24}
  Faults = {"script", "lostExit", "network", "lostReply", "refused", "crash"}
  RequiredConfigServers = 1
  ReplicationFactor = 2
  MinRacks = 2
  RackWaitTimeout <- WaitForever
  SetAddresses = {1, 2}
  AddressOrders <- AscendingOrNot
  Topology <- Chain
SPECIFICATION PassFairSpec
INVARIANTS
  OneSetPerServer
  NamesAgree
  SetsWellPlaced
  DeploymentOrder
  RunningUnderSetName
  RegisteredSetsAreShards
PROPERTIES
  ClusterSpec
  PassTerminates
