\* Machines may be removed; there are two replica sets of one server and one
\* router.
CONSTANTS
  Config = {1}
  Router = {11}
  Data = {21, 22}
  Other = {}
  VM <- MCVM
  Hostname <- MCHostname
  ConfigPrefix <- MCConfigPrefix
  RouterPrefix <- MCRouterPrefix
  DataPrefix <- MCDataPrefix
  InitiallyReady = {1, 11, 21, 22}
  Faults = {"vmRemoved"}
  RequiredConfigServers = 1
  ReplicationFactor = 1
  MinRacks = 1
  RackWaitTimeout <- WaitForever
  SetAddresses = {1, 2}
  AddressOrders <- Ascending
  Topology <- TwoRacks
SPECIFICATION FairSpec
PROPERTIES
  JoinsCluster
