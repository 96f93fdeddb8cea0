SPECIFICATION HSpec
CONSTANTS
  Nil = Nil
  Hostname = "node1"
  SvcNames = {"s1"}
  PortNames = {"p", "q"}
  IPs <- MCIPs
  LocalIPs <- MCLocalIPs
  NodeIPs <- MCLocalIPs
  ServiceObjs <- RenamedPort
  EndpointsObjs <- WithoutEndpoints
  ClientIPs = {}
  OtherPorts = {}
  FaultyCalls = {}
  MaxEvents = 4
  MaxFaults = 0
  MaxCrashes = 0
INVARIANTS
  AffinityFollowsService
PROPERTIES
  FullSyncExact
