SPECIFICATION Spec
CONSTANTS
  Nil = Nil
  Hostname = "node1"
  SvcNames = {"s1", "s2"}
  PortNames = {"p"}
  IPs <- MCIPs
  LocalIPs <- MCLocalIPs
  NodeIPs <- MCLocalIPs
  ServiceObjs <- SharedServices
  EndpointsObjs <- NoEndpoints
  ClientIPs = {"10.0.0.1"}
  OtherPorts <- PortUser
  FaultyCalls = {"masq", "dummyLink", "open", "service"}
  MaxEvents = 2
  MaxFaults = 1
  MaxCrashes = 0
INVARIANTS
  NoSocketLeak
PROPERTIES
  FullSyncExact
CHECK_DEADLOCK FALSE
