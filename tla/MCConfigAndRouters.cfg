\* Three config servers of which two are required, two routers.
CONSTANTS
  Config = {1, 2, 3}
  Router = {11, 12}
  Data = {}
  Other = {}
  VM <- MCVM
  Hostname <- MCHostname
  ConfigPrefix <- MCConfigPrefix
  RouterPrefix <- MCRouterPrefix
  DataPrefix <- MCDataPrefix
  InitiallyReady = {}
  Faults = {"script", "lostExit", "vmRemoved"}
  RequiredConfigServers = 2
  ReplicationFactor = 2
  MinRacks = 2
  RackWaitTimeout <- WaitForever
  SetAddresses = {1, 2}
  AddressOrders <- AscendingOrNot
  Topology <- TwoRacks
SPECIFICATION Spec
INVARIANTS
  RoutersAgree
  ConfigServerQuota
