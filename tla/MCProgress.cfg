\* Every failure that a retry can overcome; four data servers on two hosts of one
\* rack, so that every replica set has to wait, and a machine of unknown type. The
\* minimum number of racks is negative.
CONSTANTS
  Config = {1}
  Router = {11}
  Data = {21, 22, 23, 24}
  Other = {31}
  VM <- MCVM
  Hostname <- MCHostname
  ConfigPrefix <- MCConfigPrefix
  RouterPrefix <- MCRouterPrefix
  DataPrefix <- MCDataPrefix
  InitiallyReady = {1, 11, 21, 22, 23, 24, 31}
  Faults = {"script", "network", "lostReply"}
  RequiredConfigServers = 1
  ReplicationFactor = 2
  MinRacks <- NegativeRacks
  RackWaitTimeout = 0
  SetAddresses = {1, 2}
  AddressOrders <- Ascending
  Topology <- TwoHosts
SPECIFICATION FairSpec
INVARIANTS
  SetsWellPlaced
PROPERTIES
  JoinsCluster
  NoServersLeftOver
  LifecycleFairSpec
