SPECIFICATION FairSpec
CONSTANTS
  Nil = Nil
  Hostname = "node1"
  SvcNames = {"s1"}
  PortNames = {"p"}
  IPs <- MCIPs
  LocalIPs <- MCLocalIPs
  NodeIPs <- MCLocalIPs
  ServiceObjs <- OneServiceFixed
  EndpointsObjs <- OneEndpointsFixed
  ClientIPs = {}
  OtherPorts = {}
  FaultyCalls = {"bind"}
  MaxEvents = 2
  MaxFaults = 1
  MaxCrashes = 0
INVARIANTS
  LoopsVisitEntries
PROPERTIES
  ChangesDrained
  KernelConverges
