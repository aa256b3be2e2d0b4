\* The process is restarted at any point, with a config server and a router to
\* spare, and four data servers that form overlapping groups.
CONSTANTS
  Config = {1, 2}
  Router = {11, 12}
  Data = {21, 22, 23, 24}
  Other = {}
  VM <- MCVM
  Hostname <- MCHostname
  ConfigPrefix <- MCConfigPrefix
  RouterPrefix <- MCRouterPrefix
  DataPrefix <- MCDataPrefix
  InitiallyReady = {1, 2, 11, 12, 21, 22, 23, 24}
  Faults = {"restart"}
  RequiredConfigServers = 1
  ReplicationFactor = 2
  MinRacks = 2
  RackWaitTimeout <- WaitForever
  SetAddresses = {1, 2}
  AddressOrders <- Ascending
  Topology <- Chain
SPECIFICATION Spec
INVARIANTS
  TypeOK
PROPERTIES
  ClusterSpec
