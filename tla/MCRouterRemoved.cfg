\* Machines may be removed; there are two routers.
CONSTANTS
  Config = {1}
  Router = {11, 12}
  Data = {21, 22}
  Other = {}
  VM <- MCVM
  Hostname <- MCHostname
  ConfigPrefix <- MCConfigPrefix
  RouterPrefix <- MCRouterPrefix
  DataPrefix <- MCDataPrefix
  InitiallyReady = {1, 11, 12, 21, 22}
  Faults = {"vmRemoved"}
  RequiredConfigServers = 1
  ReplicationFactor = 2
  MinRacks = 2
  RackWaitTimeout <- WaitForever
  SetAddresses = {1, 2}
  AddressOrders <- Ascending
  Topology <- TwoRacks
SPECIFICATION FairSpec
PROPERTIES
  JoinsCluster
