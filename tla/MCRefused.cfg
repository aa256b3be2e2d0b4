\* MongoDB refuses a command once.
CONSTANTS
  Config = {1}
  Router = {11}
  Data = {21, 22}
  Other = {}
  VM <- MCVM
  Hostname <- MCHostname
  ConfigPrefix <- MCConfigPrefix
  RouterPrefix <- MCRouterPrefix
  DataPrefix <- MCDataPrefix
  InitiallyReady = {1, 11, 21, 22}
  Faults = {"refused"}
  RequiredConfigServers = 1
  ReplicationFactor = 2
  MinRacks = 2
  RackWaitTimeout <- WaitForever
  SetAddresses = {1, 2}
  AddressOrders <- Ascending
  Topology <- TwoRacks
SPECIFICATION FairSpec
PROPERTIES
  JoinsCluster
