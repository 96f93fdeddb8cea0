SPECIFICATION HSpec
CONSTANTS
  Nil = Nil
  Hostname = "node1"
  SvcNames = {"s1"}
  PortNames = {"p"}
  IPs <- MCIPs
  LocalIPs <- MCLocalIPs
  NodeIPs <- MCLocalIPs
  ServiceObjs <- OneServiceFixed
  EndpointsObjs <- OneEndpointsFixed
  ClientIPs = {"10.0.0.1"}
  OtherPorts = {}
  FaultyCalls = {}
  MaxEvents = 3
  MaxFaults = 0
  MaxCrashes = 0
INVARIANTS
  MapsExact
  NoStaleClusterFlows
