SPECIFICATION Spec
CONSTANTS
  Nil = Nil
  Hostname = "node1"
  SvcNames = {"s1"}
  PortNames = {"p"}
  IPs <- MCIPs
  LocalIPs <- MCLocalIPs
  NodeIPs <- MCLocalIPs
  ServiceObjs <- OneServiceFixed
  EndpointsObjs <- OneEndpointsFixed
  ClientIPs = {}
  OtherPorts = {}
  FaultyCalls = {}
  MaxEvents = 2
  MaxFaults = 0
  MaxCrashes = 0
INVARIANTS
  RulesHaveHeldPorts
